---- MODULE Spec2Model ----
(***************************************************************************)
(* Model of the fallback/retry orchestration of @ai-integrator/core:      *)
(* AIClient.chat (src/core/client.ts) on top of retry / retryWithTimeout   *)
(* (src/utils/retry.ts), and of AIClient.chatStream on top of the          *)
(* adapters' chatStream generators (src/providers).                        *)
(*                                                                         *)
(* One action is one turn of the JavaScript event loop: the synchronous    *)
(* code of the turn together with every promise continuation (microtask)   *)
(* it schedules.  The turns are: the caller's call, the settlement of a    *)
(* provider call, the end of a backoff sleep and the firing of a timeout   *)
(* timer; for a stream, the caller's first pull, the arrival of an         *)
(* upstream event, the end of the upstream stream and its failure.         *)
(***************************************************************************)
EXTENDS Integers, Sequences, FiniteSets, TLC

\* ------------------------------------------------------------------ bounds
MaxProviders == 2
MaxRetriesBound == 1
TimeoutMs == 100
MaxEvents == 2
MaxInvocations == 2
MaxCalls == 3
MaxFallbacks == 3

VARIABLES
  entry,        \* exported function the caller invoked
  providers,    \* [primaryProvider, ...fallbackProviders] as provider types
  maxRetries,   \* retryConfig.maxRetries of the merged retry configuration
  timeout,      \* config.timeout / timeout argument; 0 = not configured
  isRetryable,  \* third argument of retry: "default" or "never"
  pc,           \* state of the promise returned to the caller
  cur,          \* loop index i of AIClient.chat (1-based)
  result,       \* value or error the caller's promise settled with
  lastError,    \* AIClient.chat's local lastError
  calls,        \* per provider: number of invocations of fn / provider.chat
  loop,         \* per provider: state of the retry loop run for that hop
  timer,        \* per provider: state of retryWithTimeout's setTimeout
  hop,          \* per provider: the promise the caller awaits for that hop
  hist,         \* per provider: outcomes of the settled fn calls, in order
  events,       \* per provider: native events its upstream stream emitted
  stream,       \* per provider: state of its chatStream generator
  delivered,    \* chunks the caller of chatStream received, in order
  inv,          \* per invocation on one client: its kind and progress
  sdk,          \* one adapter: its client handle and clientPromise
  acall,        \* per call on that adapter: its progress and the handle it uses
  req,          \* the ChatRequest the calls on that adapter are made with
  given,        \* the configuration as the caller wrote it
  cfgFallbacks, \* the config.fallbacks array object as it is now
  chain,        \* [primaryProvider, ...fallbackProviders], by config position
  constructed,  \* the AIClient constructor has run
  verr,         \* a vendor error handed to an adapter's handleError
  classified,   \* the AIIntegratorError handleError made of it
  toolIn,       \* the input of one tool-calling operation of one adapter
  toolOut,      \* what that operation produced
  backoff,      \* one run of retry: its configuration and the delays it slept
  opIn,         \* the input of one operation of an adapter or of the constructor
  opOut         \* what that operation has produced so far

vars == <<entry, providers, maxRetries, timeout, isRetryable, pc, cur, result,
          lastError, calls, loop, timer, hop, hist, events, stream, delivered,
          inv, sdk, acall, req, given, cfgFallbacks, chain, constructed, verr,
          classified, toolIn, toolOut, backoff,
          opIn, opOut>>

streamVars == <<events, stream, delivered>>

\* the state of one chat / chatStream invocation followed on its own
callVars == <<entry, timeout, isRetryable, pc, cur, result, lastError, calls,
              loop, timer, hop, hist, events, stream, delivered>>

\* state of the other specifications of this module
adapterVars == <<sdk, acall, req>>

ctorVars == <<given, cfgFallbacks, chain, constructed>>

classVars == <<verr, classified>>

toolVars == <<toolIn, toolOut>>

opVars == <<opIn, opOut>>

sideVars == <<inv, adapterVars, ctorVars, classVars, toolVars, backoff, opVars>>

\* ------------------------------------------------------------------ values
ProviderTypes == <<"openai", "anthropic", "gemini">>

TypeOf(i) == ProviderTypes[((i - 1) % 3) + 1]

Hops == 1..Len(providers)

Blank(tag) ==
  [tag |-> tag, structured |-> FALSE, type |-> "none", provider |-> "none",
   retryable |-> FALSE, origin |-> <<0, 0>>, wrapped |-> FALSE]

None == Blank("none")

Pending == Blank("pending")

\* new AIIntegratorError(type, message, statusCode, provider, retryable, originalError)
AIIntegratorError(type, provider, retryable, origin, wrapped) ==
  [tag |-> "error", structured |-> TRUE, type |-> type, provider |-> provider,
   retryable |-> retryable, origin |-> origin, wrapped |-> wrapped]

\* a thrown value that is not an AIIntegratorError (validateRequest's Error)
RawError(origin) ==
  [tag |-> "error", structured |-> FALSE, type |-> "Error", provider |-> "undefined",
   retryable |-> FALSE, origin |-> origin, wrapped |-> FALSE]

\* normalizeResponse: the adapter stamps its own type on the response
NormalizeResponse(t, origin) ==
  [tag |-> "value", structured |-> FALSE, type |-> "response", provider |-> t,
   retryable |-> FALSE, origin |-> origin, wrapped |-> FALSE]

\* handleError: the (type, retryable) pairs an adapter produces
ClassifiedErrors ==
  { <<"authentication_error", FALSE>>, <<"rate_limit_error", TRUE>> }

\* every way call number k of provider i's chat can settle
ChatOutcomes(i, k) ==
  { NormalizeResponse(providers[i], <<i, k>>) }
    \cup { AIIntegratorError(c[1], providers[i], c[2], <<i, k>>, FALSE) : c \in ClassifiedErrors }
    \cup { RawError(<<i, k>>) }

\* ------------------------------------------------------------------- retry
\* variant: the predicate decides for every error, the flag is ignored
ShouldRetryPredicateOnly(error, pred) == pred # "never"

\* error instanceof AIIntegratorError ? error.retryable : isRetryable(error)
ShouldRetry(error, pred) ==
  IF error.structured THEN error.retryable ELSE pred # "never"

\* variant: only the budget ends the loop
GivesUpBudgetOnly(shouldRetry, attempt, limit) == attempt >= limit

\* variant: the budget test is one attempt short
GivesUpEarly(shouldRetry, attempt, limit) ==
  (~shouldRetry) \/ attempt >= limit - 1

\* variant: the budget test allows one attempt too many
GivesUpLate(shouldRetry, attempt, limit) ==
  (~shouldRetry) \/ attempt > limit

\* !shouldRetry || attempt >= retryConfig.maxRetries
GivesUp(shouldRetry, attempt, limit) ==
  (~shouldRetry) \/ attempt >= limit

\* variant: the error is wrapped before it is re-thrown
ThrownWrapped(error) ==
  AIIntegratorError("unknown_error", error.provider, FALSE, error.origin, TRUE)

\* throw error
Thrown(error) == error

\* the retry loop after fn settled with o
RetryStep(l, o) ==
  IF o.tag = "value"
  THEN [l EXCEPT !.st = "returned", !.out = o]
  ELSE IF GivesUp(ShouldRetry(o, isRetryable), l.attempt, maxRetries)
       THEN [l EXCEPT !.st = "threw", !.lastError = o, !.out = Thrown(o)]
       ELSE [l EXCEPT !.st = "sleeping", !.lastError = o]

FreshLoop == [st |-> "inflight", attempt |-> 0, lastError |-> None, out |-> None]

IdleLoop == [st |-> "idle", attempt |-> 0, lastError |-> None, out |-> None]

\* ------------------------------------------------------- retryWithTimeout
\* variant: the retryable argument is left to its default (false)
TimeoutErrorNotRetryable(i) ==
  AIIntegratorError("timeout_error", "undefined", FALSE, <<i, 0>>, FALSE)

\* new AIIntegratorError(ErrorType.TIMEOUT, msg, undefined, undefined, true)
TimeoutError(i) ==
  AIIntegratorError("timeout_error", "undefined", TRUE, <<i, 0>>, FALSE)

\* variant: every hop is raced against a timer, configured or not
UsesTimerAlways ==
  \/ entry = "retryWithTimeout"
  \/ entry = "chat"

\* this.config.timeout ? retryWithTimeout(...) : retry(...)
UsesTimer ==
  \/ entry = "retryWithTimeout"
  \/ entry = "chat" /\ timeout # 0

\* variant: no timer is ever set
ArmedTimerNever == "unset"

\* variant: a timer is set for every hop
ArmedTimerAlways == "armed"

\* setTimeout is called only inside retryWithTimeout
ArmedTimer == IF UsesTimer THEN "armed" ELSE "unset"

\* variant: the last settlement wins
RaceLastWins(current, o) == o

\* Promise.race: the first settlement wins
Race(current, o) == IF current.tag = "pending" THEN o ELSE current

\* ---------------------------------------------------------- AIClient.chat
\* variant: the wrapper keeps the defaults of the provider and retryable
\* arguments apart from marking the error retryable
WrapErrorRetryable(error, providerType) ==
  IF error.structured
  THEN error
  ELSE AIIntegratorError("unknown_error", "undefined", TRUE, error.origin, TRUE)

\* error instanceof AIIntegratorError ? error : new AIIntegratorError(UNKNOWN, ...)
WrapError(error, providerType) ==
  IF error.structured
  THEN error
  ELSE AIIntegratorError("unknown_error", providerType, FALSE, error.origin, TRUE)

\* variant: only a non-retryable error moves on to the next provider
CatchDecisionThrowRetryable(i, err, n) ==
  IF i = n THEN "throw"
  ELSE IF (~err.retryable) /\ n - 1 > 0 THEN "continue"
  ELSE "throw"

\* the catch block of AIClient.chat: throw lastError, or go on with the loop
CatchDecision(i, err, n) ==
  IF i = n THEN "throw"
  ELSE IF (~err.retryable) /\ n - 1 > 0 THEN "continue"
  ELSE IF n - 1 = 0 THEN "throw"
  ELSE "continue"

\* variant: a successful hop does not end the loop over the providers
HopOutcomeNoReturn(i, o, n) ==
  IF o.tag = "value" THEN (IF i < n THEN "continue" ELSE "return")
  ELSE IF entry # "chat" THEN "throw"
  ELSE IF i = n THEN "throw" ELSE "continue"

\* what the awaiting caller does once the promise of hop i settled with o
HopOutcome(i, o, n) ==
  IF o.tag = "value" THEN "return"
  ELSE IF entry # "chat" THEN "throw"
  ELSE CatchDecision(i, WrapError(o, providers[i]), n)

\* the promise of hop i settles with o while the caller awaits it; loop1 and
\* timer1 are the loops and timers as the settling turn left them
Deliver(i, o, loop1, timer1) ==
  LET n == Len(providers)
      e == IF entry = "chat" /\ o.tag = "error" THEN WrapError(o, providers[i]) ELSE o
      d == HopOutcome(i, o, n)
  IN  /\ lastError' = IF entry = "chat" /\ o.tag = "error" THEN e ELSE lastError
      /\ IF d = "continue"
         THEN /\ pc' = pc
              /\ result' = result
              /\ cur' = i + 1
              /\ hop' = [hop EXCEPT ![i] = o, ![i + 1] = Pending]
              /\ loop' = [loop1 EXCEPT ![i + 1] = FreshLoop]
              /\ calls' = [calls EXCEPT ![i + 1] = 1]
              /\ timer' = [timer1 EXCEPT ![i + 1] = ArmedTimer]
         ELSE /\ pc' = IF d = "return" THEN "resolved" ELSE "rejected"
              /\ result' = e
              /\ cur' = cur
              /\ hop' = [hop EXCEPT ![i] = o]
              /\ loop' = loop1
              /\ calls' = calls
              /\ timer' = timer1

\* ---------------------------------------------------- adapter chatStream
\* a native event of an upstream stream
Event(type, sub, fin) == [type |-> type, sub |-> sub, fin |-> fin]

\* a StreamChunk; src names the upstream event it was made from
StreamChunk(provider, src, delta, finish) ==
  [provider |-> provider, src |-> src, delta |-> delta, finish_reason |-> finish]

\* events an upstream stream emits before its terminal event
BodyEvents(t) ==
  CASE t = "openai" ->
         { Event("chunk", "content", "null"), Event("chunk", "tool_calls", "null") }
    [] t = "anthropic" ->
         { Event("content_block_delta", "text_delta", "none"),
           Event("content_block_start", "tool_use", "none"),
           Event("content_block_delta", "input_json_delta", "none"),
           Event("message_delta", "none", "none") }
    [] OTHER ->
         { Event("chunk", "text", ""), Event("chunk", "functionCall", "") }

\* the terminal event of an upstream stream
FinalEvents(t) ==
  CASE t = "openai" -> { Event("chunk", "empty", "stop") }
    [] t = "anthropic" -> { Event("message_stop", "none", "none") }
    [] OTHER -> { Event("chunk", "text", "STOP"), Event("chunk", "text", "RECITATION") }

\* OpenAIProvider.normalizeStreamChunk: finish_reason: choice?.finish_reason
OpenAIStreamChunks(ev, src) ==
  << StreamChunk("openai", src, ev.sub, ev.fin) >>

\* variant: the text branch tests the event type only
AnthropicStreamChunksTypeOnly(ev, src) ==
  (IF ev.type = "content_block_delta"
   THEN << StreamChunk("anthropic", src, "content", "undefined") >> ELSE <<>>)
  \o
  (IF ev.type = "content_block_start" /\ ev.sub = "tool_use"
   THEN << StreamChunk("anthropic", src, "tool_calls", "undefined") >> ELSE <<>>)
  \o
  (IF ev.type = "content_block_delta" /\ ev.sub = "input_json_delta"
   THEN << StreamChunk("anthropic", src, "tool_calls", "undefined") >> ELSE <<>>)
  \o
  (IF ev.type = "message_stop"
   THEN << StreamChunk("anthropic", src, "empty", "stop") >> ELSE <<>>)

\* the body of AnthropicProvider.chatStream's for-await loop: four
\* independent if statements, each yielding one chunk
AnthropicStreamChunks(ev, src) ==
  (IF ev.type = "content_block_delta" /\ ev.sub = "text_delta"
   THEN << StreamChunk("anthropic", src, "content", "undefined") >> ELSE <<>>)
  \o
  (IF ev.type = "content_block_start" /\ ev.sub = "tool_use"
   THEN << StreamChunk("anthropic", src, "tool_calls", "undefined") >> ELSE <<>>)
  \o
  (IF ev.type = "content_block_delta" /\ ev.sub = "input_json_delta"
   THEN << StreamChunk("anthropic", src, "tool_calls", "undefined") >> ELSE <<>>)
  \o
  (IF ev.type = "message_stop"
   THEN << StreamChunk("anthropic", src, "empty", "stop") >> ELSE <<>>)

\* GeminiProvider.mapFinishReason
MapFinishReason(reason) ==
  CASE reason = "STOP" -> "stop"
    [] reason = "MAX_TOKENS" -> "length"
    [] reason = "SAFETY" -> "content_filter"
    [] OTHER -> "null"

\* GeminiProvider.normalizeStreamChunk
GeminiStreamChunks(ev, src) ==
  << StreamChunk("gemini", src,
                 IF ev.sub = "functionCall" THEN "tool_calls" ELSE "content",
                 IF ev.fin # "" THEN MapFinishReason(ev.fin) ELSE "undefined") >>

\* the chunks adapter t yields for one upstream event
AdapterChunks(t, ev, src) ==
  CASE t = "openai" -> OpenAIStreamChunks(ev, src)
    [] t = "anthropic" -> AnthropicStreamChunks(ev, src)
    [] OTHER -> GeminiStreamChunks(ev, src)

\* every way provider i's chatStream can throw: validateRequest's Error
\* before anything was read, a handleError result at any point
StreamErrors(i) ==
  { AIIntegratorError(c[1], providers[i], c[2], <<i, 1>>, FALSE) : c \in ClassifiedErrors }
    \cup (IF events[i] = <<>> /\ stream[i] = "open" THEN { RawError(<<i, 1>>) } ELSE {})

\* the generator of provider i returned
StreamReturn(i) ==
  [Blank("value") EXCEPT !.type = "stream", !.provider = providers[i],
                         !.origin = <<i, 1>>]

RECURSIVE SumLen(_)
SumLen(i) == IF i = 0 THEN 0 ELSE Len(events[i]) + SumLen(i - 1)

\* number of upstream events read so far in this invocation
TotalEvents == SumLen(Len(providers))

\* ---------------------------------------------------- AIClient.chatStream
\* variant: the first failure ends the stream
StreamCatchDecisionThrowFirst(i, n) == "throw"

\* the catch block of AIClient.chatStream
StreamCatchDecision(i, n) == IF i = n THEN "throw" ELSE "continue"

\* ------------------------------------------------------ adapter handleError
\* error?.status || error?.response?.status as the inputs give it; 0 stands
\* for a missing status
Statuses == {0, 400, 401, 403, 429, 500, 503}

\* error?.code
Codes == {"", "ECONNABORTED", "ETIMEDOUT", "ENOTFOUND", "ECONNREFUSED"}

\* error?.message, as the set of the inspected substrings it contains
Messages ==
  { {}, {"api key"}, {"quota"}, {"rate limit"}, {"invalid"}, {"timeout"},
    {"network"}, {"fetch"}, {"invalid", "api key"} }

\* variant: a 5xx status is classified but not marked retryable
OpenAIHandleErrorNoRetry(e) ==
  IF e.status = 401 THEN <<"authentication_error", FALSE>>
  ELSE IF e.status = 429 THEN <<"rate_limit_error", TRUE>>
  ELSE IF e.status = 400 THEN <<"invalid_request_error", FALSE>>
  ELSE IF e.status >= 500 THEN <<"api_error", FALSE>>
  ELSE IF e.code \in {"ECONNABORTED", "ETIMEDOUT"} THEN <<"timeout_error", TRUE>>
  ELSE IF e.code \in {"ENOTFOUND", "ECONNREFUSED"} THEN <<"network_error", TRUE>>
  ELSE <<"api_error", FALSE>>

\* the (type, retryable) pair OpenAIProvider.handleError computes
OpenAIHandleError(e) ==
  IF e.status = 401 THEN <<"authentication_error", FALSE>>
  ELSE IF e.status = 429 THEN <<"rate_limit_error", TRUE>>
  ELSE IF e.status = 400 THEN <<"invalid_request_error", FALSE>>
  ELSE IF e.status >= 500 THEN <<"api_error", TRUE>>
  ELSE IF e.code \in {"ECONNABORTED", "ETIMEDOUT"} THEN <<"timeout_error", TRUE>>
  ELSE IF e.code \in {"ENOTFOUND", "ECONNREFUSED"} THEN <<"network_error", TRUE>>
  ELSE <<"api_error", FALSE>>

\* the (type, retryable) pair AnthropicProvider.handleError computes
AnthropicHandleError(e) ==
  IF e.status = 401 THEN <<"authentication_error", FALSE>>
  ELSE IF e.status = 429 THEN <<"rate_limit_error", TRUE>>
  ELSE IF e.status = 400 THEN <<"invalid_request_error", FALSE>>
  ELSE IF e.status >= 500 THEN <<"api_error", TRUE>>
  ELSE IF e.code \in {"ECONNABORTED", "ETIMEDOUT"} THEN <<"timeout_error", TRUE>>
  ELSE IF e.code \in {"ENOTFOUND", "ECONNREFUSED"} THEN <<"network_error", TRUE>>
  ELSE <<"api_error", FALSE>>

\* the (type, retryable) pair GeminiProvider.handleError computes: the
\* message is inspected first, the status only when no substring matched
GeminiHandleError(e) ==
  IF "api key" \in e.msg THEN <<"authentication_error", FALSE>>
  ELSE IF "quota" \in e.msg \/ "rate limit" \in e.msg THEN <<"rate_limit_error", TRUE>>
  ELSE IF "invalid" \in e.msg THEN <<"invalid_request_error", FALSE>>
  ELSE IF "timeout" \in e.msg THEN <<"timeout_error", TRUE>>
  ELSE IF "network" \in e.msg \/ "fetch" \in e.msg THEN <<"network_error", TRUE>>
  ELSE IF e.status # 0 /\ e.status >= 500 THEN <<"api_error", TRUE>>
  ELSE IF e.status # 0 /\ e.status = 429 THEN <<"rate_limit_error", TRUE>>
  ELSE <<"api_error", FALSE>>

\* handleError of adapter t: a new AIIntegratorError stamped with t and
\* carrying e as originalError
HandleError(t, e) ==
  LET c == CASE t = "openai" -> OpenAIHandleError(e)
             [] t = "anthropic" -> AnthropicHandleError(e)
             [] OTHER -> GeminiHandleError(e)
  IN  AIIntegratorError(c[1], t, c[2], <<0, 0>>, TRUE)

\* --------------------------------------------------- AIClient constructor
\* a provider configuration: pos 0 is the primary, pos k the k-th fallback
\* as written by the caller
ProviderCfg(pos, hasPriority, priority) ==
  [pos |-> pos, provider |-> TypeOf(pos + 1), hasPriority |-> hasPriority,
   priority |-> priority]

\* the values a priority field is given in a configuration
PriorityOptions == { <<FALSE, 0>>, <<TRUE, -1>>, <<TRUE, 0>>, <<TRUE, 1>> }

\* variant: a fallback without a priority sorts after every other
EffectivePriorityLast(f) == IF f.hasPriority THEN f.priority ELSE 99

\* (a.priority || 0)
EffectivePriority(f) == IF f.hasPriority /\ f.priority # 0 THEN f.priority ELSE 0

\* (a, b) => (a.priority || 0) - (b.priority || 0)
Compare(a, b) == EffectivePriority(a) - EffectivePriority(b)

RECURSIVE Insert(_, _)
\* x, which stood before every element of the sorted s, takes its place
Insert(x, s) ==
  IF s = <<>> THEN << x >>
  ELSE IF Compare(x, Head(s)) <= 0 THEN << x >> \o s
       ELSE << Head(s) >> \o Insert(x, Tail(s))

RECURSIVE SortByPriority(_)
\* Array.prototype.sort with Compare: a stable sort
SortByPriority(s) ==
  IF s = <<>> THEN <<>> ELSE Insert(Head(s), SortByPriority(Tail(s)))

\* ----------------------------------------------------------------- actions
\* the specification at hand follows no adapter of its own
NoAdapter ==
  /\ sdk = [client |-> 0, promise |-> "null", started |-> 0, created |-> 0]
  /\ acall = <<>>
  /\ req = [msgs |-> 1, temperature |-> <<FALSE, 0>>, max_tokens |-> <<FALSE, 0>>]

\* the specification at hand constructs no client
NoClient ==
  /\ given = [primary |-> ProviderCfg(0, FALSE, 0), fallbacks |-> <<>>]
  /\ cfgFallbacks = <<>>
  /\ chain = <<>>
  /\ constructed = FALSE

\* the specification at hand classifies no vendor error
NoVendorError ==
  /\ verr = [adapter |-> "none", status |-> 0, code |-> "", msg |-> {}]
  /\ classified = None

\* the specification at hand runs no tool-calling operation
NoToolOperation ==
  /\ toolIn = [op |-> "none"]
  /\ toolOut = None

\* the specification at hand follows no delays of retry
NoRetryRun ==
  backoff = [st |-> "none"]

\* the specification at hand follows no operation of the kinds below
NoOperation ==
  /\ opIn = [op |-> "none"]
  /\ opOut = None

\* nothing has been called yet
NotCalled ==
  /\ pc = "init"
  /\ cur = 0
  /\ result = None
  /\ lastError = None
  /\ calls = [i \in Hops |-> 0]
  /\ loop = [i \in Hops |-> IdleLoop]
  /\ timer = [i \in Hops |-> "unset"]
  /\ hop = [i \in Hops |-> None]
  /\ hist = [i \in Hops |-> <<>>]
  /\ events = [i \in Hops |-> <<>>]
  /\ stream = [i \in Hops |-> "idle"]
  /\ delivered = <<>>

Init ==
  /\ entry \in {"chat", "chatStream", "retry", "retryWithTimeout"}
  /\ \E n \in 1..MaxProviders, r \in 0..2 :
       /\ entry \notin {"chat", "chatStream"} => n = 1
       /\ entry # "chatStream" => r = 0
       /\ providers = [i \in 1..n |-> TypeOf(i + r)]
  /\ maxRetries \in 0..MaxRetriesBound
  /\ timeout \in {0, TimeoutMs}
  /\ entry = "retry" => timeout = 0
  /\ isRetryable \in {"default", "never"}
  /\ entry # "retry" => isRetryable = "default"
  /\ entry = "chatStream" => (maxRetries = MaxRetriesBound /\ timeout = TimeoutMs)
  /\ NotCalled
  /\ NoOperation
  /\ NoToolOperation
  /\ NoRetryRun
  /\ inv = <<>>
  /\ NoAdapter
  /\ NoClient
  /\ NoVendorError

\* the caller invokes chat / retry / retryWithTimeout: the first fn call is
\* made synchronously, then the caller awaits
Call ==
  /\ entry # "chatStream"
  /\ pc = "init"
  /\ pc' = "running"
  /\ cur' = 1
  /\ calls' = [calls EXCEPT ![1] = 1]
  /\ loop' = [loop EXCEPT ![1] = FreshLoop]
  /\ timer' = [timer EXCEPT ![1] = ArmedTimer]
  /\ hop' = [hop EXCEPT ![1] = Pending]
  /\ UNCHANGED <<entry, providers, maxRetries, timeout, isRetryable, result,
                 lastError, hist>>
  /\ UNCHANGED <<streamVars, sideVars>>

\* the in-flight call of provider i settles with outcome o
FnSettle(i, o) ==
  /\ loop[i].st = "inflight"
  /\ LET l2 == RetryStep(loop[i], o)
         loop1 == [loop EXCEPT ![i] = l2]
     IN  /\ hist' = [hist EXCEPT ![i] = Append(@, o)]
         /\ IF l2.st \in {"returned", "threw"} /\ hop[i].tag = "pending"
            THEN Deliver(i, Race(hop[i], l2.out), loop1, timer)
            ELSE /\ loop' = loop1
                 /\ hop' = IF l2.st \in {"returned", "threw"}
                           THEN [hop EXCEPT ![i] = Race(@, l2.out)]
                           ELSE hop
                 /\ UNCHANGED <<pc, cur, result, lastError, calls, timer>>
  /\ UNCHANGED <<entry, providers, maxRetries, timeout, isRetryable>>
  /\ UNCHANGED <<streamVars, sideVars>>

\* sleep(delay) ends: the loop increments attempt and calls fn again
SleepDone(i) ==
  /\ loop[i].st = "sleeping"
  /\ loop' = [loop EXCEPT ![i].st = "inflight", ![i].attempt = @ + 1]
  /\ calls' = [calls EXCEPT ![i] = @ + 1]
  /\ UNCHANGED <<entry, providers, maxRetries, timeout, isRetryable, pc, cur,
                 result, lastError, timer, hop, hist>>
  /\ UNCHANGED <<streamVars, sideVars>>

\* the setTimeout of retryWithTimeout fires (it is never cleared)
TimerFire(i) ==
  /\ timer[i] = "armed"
  /\ LET timer1 == [timer EXCEPT ![i] = "fired"]
     IN  IF hop[i].tag = "pending"
         THEN Deliver(i, Race(hop[i], TimeoutError(i)), loop, timer1)
         ELSE /\ timer' = timer1
              /\ hop' = [hop EXCEPT ![i] = Race(@, TimeoutError(i))]
              /\ UNCHANGED <<pc, cur, result, lastError, calls, loop>>
  /\ UNCHANGED <<entry, providers, maxRetries, timeout, isRetryable, hist>>
  /\ UNCHANGED <<streamVars, sideVars>>

\* the caller pulls for the first time: the body of chatStream starts and
\* delegates to the primary's generator
StreamCall ==
  /\ entry = "chatStream"
  /\ pc = "init"
  /\ pc' = "running"
  /\ cur' = 1
  /\ calls' = [calls EXCEPT ![1] = 1]
  /\ stream' = [stream EXCEPT ![1] = "open"]
  /\ hop' = [hop EXCEPT ![1] = Pending]
  /\ UNCHANGED <<entry, providers, maxRetries, timeout, isRetryable, result,
                 lastError, loop, timer, hist, events, delivered>>
  /\ UNCHANGED sideVars

\* the upstream stream of provider i emits ev: the adapter yields its
\* chunks, yield* hands them to the caller
StreamEvent(i, ev) ==
  /\ stream[i] = "open"
  /\ ev \in FinalEvents(providers[i]) \/ TotalEvents < MaxEvents
  /\ events' = [events EXCEPT ![i] = Append(@, ev)]
  /\ delivered' = delivered \o AdapterChunks(providers[i], ev, <<i, Len(events[i]) + 1>>)
  /\ stream' = [stream EXCEPT ![i] = IF ev \in FinalEvents(providers[i])
                                     THEN "final" ELSE "open"]
  /\ UNCHANGED <<entry, providers, maxRetries, timeout, isRetryable, pc, cur,
                 result, lastError, calls, loop, timer, hop, hist>>
  /\ UNCHANGED sideVars

\* the upstream stream of provider i ends: the adapter's generator returns
\* and chatStream returns
StreamEnd(i) ==
  /\ stream[i] = "final"
  /\ stream' = [stream EXCEPT ![i] = "done"]
  /\ hop' = [hop EXCEPT ![i] = StreamReturn(i)]
  /\ pc' = "resolved"
  /\ UNCHANGED <<entry, providers, maxRetries, timeout, isRetryable, cur,
                 result, lastError, calls, loop, timer, hist, events, delivered>>
  /\ UNCHANGED sideVars

\* provider i's generator throws e: chatStream's catch block runs
StreamFail(i, e) ==
  /\ stream[i] \in {"open", "final"}
  /\ LET n == Len(providers)
         err == WrapError(e, providers[i])
     IN  /\ lastError' = err
         /\ IF StreamCatchDecision(i, n) = "continue"
            THEN /\ cur' = i + 1
                 /\ calls' = [calls EXCEPT ![i + 1] = 1]
                 /\ stream' = [stream EXCEPT ![i] = "failed", ![i + 1] = "open"]
                 /\ hop' = [hop EXCEPT ![i] = e, ![i + 1] = Pending]
                 /\ UNCHANGED <<pc, result>>
            ELSE /\ pc' = "rejected"
                 /\ result' = err
                 /\ stream' = [stream EXCEPT ![i] = "failed"]
                 /\ hop' = [hop EXCEPT ![i] = e]
                 /\ UNCHANGED <<cur, calls>>
  /\ UNCHANGED <<entry, providers, maxRetries, timeout, isRetryable, loop,
                 timer, hist, events, delivered>>
  /\ UNCHANGED sideVars

Next ==
  \/ Call
  \/ \E i \in Hops : \E o \in ChatOutcomes(i, calls[i]) : FnSettle(i, o)
  \/ \E i \in Hops : SleepDone(i)
  \/ \E i \in Hops : TimerFire(i)
  \/ StreamCall
  \/ \E i \in Hops : \E ev \in BodyEvents(providers[i]) \cup FinalEvents(providers[i]) :
        StreamEvent(i, ev)
  \/ \E i \in Hops : StreamEnd(i)
  \/ \E i \in Hops : \E e \in StreamErrors(i) : StreamFail(i, e)

Spec == Init /\ [][Next]_vars

\* ------------------------------------------------- AIClient.chat, scheduled

InitChat == Init /\ entry = "chat"

NextChat ==
  \/ Call
  \/ \E i \in Hops : \E o \in ChatOutcomes(i, calls[i]) : FnSettle(i, o)
  \/ \E i \in Hops : SleepDone(i)
  \/ \E i \in Hops : TimerFire(i)

\* the timers of setTimeout fire (retryWithTimeout's timer, sleep's timer);
\* a provider call is taken to settle only where no timeout is configured
SpecChatLive ==
  /\ InitChat
  /\ [][NextChat]_vars
  /\ \A i \in 1..MaxProviders : WF_vars(i \in Hops /\ TimerFire(i))
  /\ \A i \in 1..MaxProviders : WF_vars(i \in Hops /\ SleepDone(i))
  /\ \A i \in 1..MaxProviders :
        WF_vars(i \in Hops /\ timeout = 0
                  /\ \E o \in ChatOutcomes(i, calls[i]) : FnSettle(i, o))

\* ------------------------------------------- several invocations, one client
\* variant: a later invocation starts at the provider that served last
StartIndexSticky(k) ==
  IF \E j \in DOMAIN inv : inv[j].pc = "resolved" /\ inv[j].cur > 1 THEN 2 ELSE 1

\* for (let i = 0; ...): the loop index is a local of each invocation
StartIndex(k) == 1

IdleInvocation(kind) ==
  [kind |-> kind, pc |-> "idle", cur |-> 0, first |-> 0, attempt |-> 0,
   st |-> "idle", upstream |-> 0, out1 |-> "none"]

InitInv ==
  /\ entry = "client"
  /\ \E n \in 1..MaxProviders : providers = [i \in 1..n |-> TypeOf(i)]
  /\ maxRetries \in 0..MaxRetriesBound
  /\ timeout = 0
  /\ isRetryable = "default"
  /\ NotCalled
  /\ NoOperation
  /\ NoToolOperation
  /\ NoRetryRun
  /\ NoAdapter
  /\ NoClient
  /\ NoVendorError
  /\ inv \in [1..MaxInvocations -> { IdleInvocation("chat"), IdleInvocation("chatStream") }]

\* the caller invokes chat, or pulls a chatStream generator for the first
\* time: the first provider is called
InvStart(k) ==
  /\ inv[k].pc = "idle"
  /\ inv' = [inv EXCEPT ![k] = [@ EXCEPT !.pc = "running", !.cur = StartIndex(k),
                                         !.first = StartIndex(k), !.st = "inflight",
                                         !.upstream = 1]]
  /\ UNCHANGED <<providers, maxRetries, callVars, opVars, toolVars, backoff, adapterVars, ctorVars, classVars>>

\* the upstream call (or stream) invocation k waits for settles with o
InvSettle(k, o) ==
  /\ inv[k].st = "inflight"
  /\ LET v == [inv[k] EXCEPT !.out1 = IF inv[k].upstream = 1 THEN o.tag ELSE @]
         n == Len(providers)
         d == IF v.kind = "chat"
              THEN CatchDecision(v.cur, WrapError(o, providers[v.cur]), n)
              ELSE StreamCatchDecision(v.cur, n)
     IN  inv' = [inv EXCEPT ![k] =
           IF o.tag = "value"
           THEN [v EXCEPT !.pc = "resolved", !.st = "idle"]
           ELSE IF v.kind = "chat"
                   /\ ~GivesUp(ShouldRetry(o, isRetryable), v.attempt, maxRetries)
                THEN [v EXCEPT !.st = "sleeping"]
                ELSE IF d = "continue"
                     THEN [v EXCEPT !.cur = @ + 1, !.attempt = 0, !.upstream = @ + 1]
                     ELSE [v EXCEPT !.pc = "rejected", !.st = "idle"]]
  /\ UNCHANGED <<providers, maxRetries, callVars, opVars, toolVars, backoff, adapterVars, ctorVars, classVars>>

\* the backoff sleep of invocation k ends: the provider is called again
InvSleepDone(k) ==
  /\ inv[k].st = "sleeping"
  /\ inv' = [inv EXCEPT ![k] = [@ EXCEPT !.st = "inflight", !.attempt = @ + 1,
                                         !.upstream = @ + 1]]
  /\ UNCHANGED <<providers, maxRetries, callVars, opVars, toolVars, backoff, adapterVars, ctorVars, classVars>>

NextInv ==
  \/ \E k \in DOMAIN inv : InvStart(k)
  \/ \E k \in { j \in DOMAIN inv : inv[j].st = "inflight" } :
        \E o \in ChatOutcomes(inv[k].cur, 1) : InvSettle(k, o)
  \/ \E k \in DOMAIN inv : InvSleepDone(k)

SpecInv == InitInv /\ [][NextInv]_vars

\* ------------------------------------------------ adapter initializeClient
\* variant: only the client handle is tested
NeedsInitClientOnly(client, promise) == client = 0

\* variant: a rejected clientPromise is not returned, the import is retried
NeedsInitAfterFailure(client, promise) ==
  client = 0 /\ promise \in {"null", "rejected"}

\* neither if (this.client) nor if (this.clientPromise) returned
NeedsInit(client, promise) == client = 0 /\ promise = "null"

IdleCall(kind) ==
  [kind |-> kind, pc |-> "idle", handle |-> 0, waited |-> FALSE, err |-> None]

\* the values a request gives temperature and max_tokens: <<FALSE, 0>> is a
\* missing field
TemperatureOptions == { <<FALSE, 0>>, <<TRUE, -1>>, <<TRUE, 0>>, <<TRUE, 2>>, <<TRUE, 3>> }

MaxTokensOptions == { <<FALSE, 0>>, <<TRUE, 0>>, <<TRUE, 1>> }

\* variant: the temperature is not validated
ValidateRequestNoTemperature(r) ==
  IF r.msgs = 0 THEN "Messages array cannot be empty"
  ELSE IF r.max_tokens[1] /\ r.max_tokens[2] < 1
       THEN "max_tokens must be greater than 0"
  ELSE "ok"

\* BaseProvider.validateRequest: the message of the Error it throws, or ok
ValidateRequest(r) ==
  IF r.msgs = 0 THEN "Messages array cannot be empty"
  ELSE IF r.temperature[1] /\ (r.temperature[2] < 0 \/ r.temperature[2] > 2)
       THEN "Temperature must be between 0 and 2"
  ELSE IF r.max_tokens[1] /\ r.max_tokens[2] < 1
       THEN "max_tokens must be greater than 0"
  ELSE "ok"

\* variant: the message of the construction failure mentions the network
SdkNotFoundNetwork(t) == [adapter |-> t, status |-> 0, code |-> "", msg |-> {"network"}]

\* the AIIntegratorError initializeClient throws, as handleError sees it:
\* no status and no code property, a message with none of the patterns
SdkNotFound(t) == [adapter |-> t, status |-> 0, code |-> "", msg |-> {}]

\* the catch block of chat / chatStream around a failed initializeClient
InitFailure(t) == HandleError(t, SdkNotFound(t))

InitAdapter ==
  /\ entry = "adapter"
  /\ \E t \in {"openai", "anthropic", "gemini"} : providers = << t >>
  /\ maxRetries = 0
  /\ timeout = 0
  /\ isRetryable = "default"
  /\ NotCalled
  /\ NoOperation
  /\ NoToolOperation
  /\ NoRetryRun
  /\ inv = <<>>
  /\ NoClient
  /\ NoVendorError
  /\ sdk = [client |-> 0, promise |-> "null", started |-> 0, created |-> 0]
  /\ acall \in [1..MaxCalls -> { IdleCall("chat"), IdleCall("chatStream") }]
  /\ req \in [msgs : 0..1, temperature : TemperatureOptions, max_tokens : MaxTokensOptions]

\* call c enters chat / chatStream: validateRequest, then initializeClient
\* up to its first await
AdapterCall(c) ==
  /\ acall[c].pc = "idle"
  /\ IF ValidateRequest(req) # "ok"
     THEN /\ sdk' = sdk
          /\ acall' = [acall EXCEPT ![c].pc = "failed", ![c].err = RawError(<<c, 0>>)]
     ELSE IF NeedsInit(sdk.client, sdk.promise)
     THEN /\ sdk' = [sdk EXCEPT !.promise = "pending", !.started = @ + 1]
          /\ acall' = [acall EXCEPT ![c].pc = "awaitInit", ![c].waited = TRUE]
     ELSE /\ sdk' = sdk
          /\ acall' = [acall EXCEPT ![c] =
               IF sdk.client # 0
               THEN [@ EXCEPT !.pc = "request", !.handle = sdk.client]
               ELSE IF sdk.promise = "rejected"
                    THEN [@ EXCEPT !.pc = "failed", !.err = InitFailure(providers[1])]
                    ELSE [@ EXCEPT !.pc = "awaitInit", !.waited = TRUE]]
  /\ UNCHANGED <<providers, maxRetries, callVars, opVars, toolVars, backoff, inv, ctorVars, classVars, req>>

\* the dynamic import resolves: the SDK client is built and stored, and
\* every call awaiting clientPromise goes on with it
ImportDone ==
  /\ sdk.promise = "pending"
  /\ LET h == sdk.created + 1
     IN  /\ sdk' = [sdk EXCEPT !.client = h, !.created = h, !.promise = "fulfilled"]
         /\ acall' = [c \in DOMAIN acall |->
              IF acall[c].pc = "awaitInit"
              THEN [acall[c] EXCEPT !.pc = "request", !.handle = h]
              ELSE acall[c]]
  /\ UNCHANGED <<providers, maxRetries, callVars, opVars, toolVars, backoff, inv, ctorVars, classVars, req>>

\* the dynamic import fails: clientPromise rejects with an api_error and
\* every call awaiting it fails
ImportFail ==
  /\ sdk.promise = "pending"
  /\ sdk' = [sdk EXCEPT !.promise = "rejected"]
  /\ acall' = [c \in DOMAIN acall |->
       IF acall[c].pc = "awaitInit"
       THEN [acall[c] EXCEPT !.pc = "failed", !.err = InitFailure(providers[1])]
       ELSE acall[c]]
  /\ UNCHANGED <<providers, maxRetries, callVars, opVars, toolVars, backoff, inv, ctorVars, classVars, req>>

\* the upstream request of call c, made through its handle, settles
RequestDone(c) ==
  /\ acall[c].pc = "request"
  /\ acall' = [acall EXCEPT ![c].pc = "done"]
  /\ UNCHANGED <<providers, maxRetries, callVars, opVars, toolVars, backoff, inv, sdk, ctorVars, classVars, req>>

NextAdapter ==
  \/ \E c \in DOMAIN acall : AdapterCall(c)
  \/ ImportDone
  \/ ImportFail
  \/ \E c \in DOMAIN acall : RequestDone(c)

SpecAdapter == InitAdapter /\ [][NextAdapter]_vars

\* --------------------------------------------------------- construction
InitConstruct ==
  /\ entry = "constructor"
  /\ providers = <<>>
  /\ maxRetries = 0
  /\ timeout = 0
  /\ isRetryable = "default"
  /\ NotCalled
  /\ NoOperation
  /\ NoToolOperation
  /\ NoRetryRun
  /\ inv = <<>>
  /\ NoAdapter
  /\ NoVendorError
  /\ \E n \in 0..MaxFallbacks :
       \E pp \in { <<FALSE, 0>>, <<TRUE, 1>> }, pr \in [1..n -> PriorityOptions] :
         given = [primary |-> ProviderCfg(0, pp[1], pp[2]),
                  fallbacks |-> [k \in 1..n |-> ProviderCfg(k, pr[k][1], pr[k][2])]]
  /\ cfgFallbacks = given.fallbacks
  /\ chain = <<>>
  /\ constructed = FALSE

\* new AIClient(config): the primary provider is created, config.fallbacks
\* is sorted in place and one provider is created per fallback
Construct ==
  /\ ~constructed
  /\ constructed' = TRUE
  /\ LET sorted == IF Len(cfgFallbacks) > 0
                   THEN SortByPriority(cfgFallbacks) ELSE cfgFallbacks
     IN  /\ cfgFallbacks' = sorted
         /\ chain' = << given.primary.pos >> \o [k \in 1..Len(sorted) |-> sorted[k].pos]
  /\ UNCHANGED <<providers, maxRetries, callVars, opVars, toolVars, backoff, inv, adapterVars, classVars, given>>

\* after construction the caller assigns a priority in its configuration
SetPriority(k, p) ==
  /\ constructed
  /\ cfgFallbacks' = [cfgFallbacks EXCEPT ![k].hasPriority = p[1], ![k].priority = p[2]]
  /\ UNCHANGED <<providers, maxRetries, callVars, opVars, toolVars, backoff, inv, adapterVars, classVars,
                 given, chain, constructed>>

NextConstruct ==
  \/ Construct
  \/ \E k \in DOMAIN cfgFallbacks : \E p \in PriorityOptions : SetPriority(k, p)

SpecConstruct == InitConstruct /\ [][NextConstruct]_vars

\* ------------------------------------------------------- classification
InitClassify ==
  /\ entry = "handleError"
  /\ providers = <<>>
  /\ maxRetries = 0
  /\ timeout = 0
  /\ isRetryable = "default"
  /\ NotCalled
  /\ NoOperation
  /\ NoToolOperation
  /\ NoRetryRun
  /\ inv = <<>>
  /\ NoAdapter
  /\ NoClient
  /\ verr \in [adapter : {"openai", "anthropic", "gemini"}, status : Statuses,
               code : Codes, msg : Messages]
  /\ classified = None

\* the catch block of an adapter's chat / chatStream: throw this.handleError(error)
Classify ==
  /\ classified = None
  /\ classified' = HandleError(verr.adapter, verr)
  /\ UNCHANGED <<providers, maxRetries, callVars, opVars, toolVars, backoff, inv, adapterVars, ctorVars, verr>>

NextClassify == Classify

SpecClassify == InitClassify /\ [][NextClassify]_vars

\* ------------------------------------------------------------ tool calling
\* content blocks / parts / tool calls of one vendor response or stream
MaxParts == 2
\* the last reading of Date.now() during one call
MaxTick == 1

\* JavaScript null / a string, and undefined / an array
Null == <<FALSE, "">>

Text(s) == <<TRUE, s>>

Undefined == <<FALSE, <<>>>>

Some(list) == <<TRUE, list>>

\* the id a vendor assigned to its k-th tool call of one response
VendorId(k) == [by |-> "vendor", t |-> 0, n |-> k]

\* `call_${Date.now()}_${index}` without the index
SynthesizedIdClockOnly(now, index) == [by |-> "call", t |-> now, n |-> 0]

\* `call_${Date.now()}_${index}`
SynthesizedId(now, index) == [by |-> "call", t |-> now, n |-> index]

\* the non-decreasing readings of Date.now() of n successive callbacks
Clocks(n) ==
  { c \in [1..n -> 0..MaxTick] : \A i, j \in 1..n : i <= j => c[i] <= c[j] }

BoundedSeq(S, n) == UNION { [1..m -> S] : m \in 0..n }

\* choices[0] of an OpenAI chat completion
OpenAIResponses ==
  { [adapter |-> "openai", content |-> c, tool_calls |-> tc, finish_reason |-> f] :
      c \in { Null, Text(""), Text("hi") },
      tc \in { Undefined } \cup { Some([k \in 1..n |-> VendorId(k)]) : n \in 1..MaxParts },
      f \in { "stop", "length", "tool_calls", "content_filter" } }

\* an Anthropic message: its content blocks and stop_reason
AnthropicBlock(kind, k) ==
  [type |-> kind, text |-> IF kind = "text" THEN "hi" ELSE "", id |-> VendorId(k)]

AnthropicResponses ==
  { [adapter |-> "anthropic",
     content |-> [k \in DOMAIN kinds |-> AnthropicBlock(kinds[k], k)],
     stop_reason |-> r] :
      kinds \in BoundedSeq({ "text", "tool_use" }, MaxParts),
      r \in { "end_turn", "max_tokens", "stop_sequence", "tool_use" } }

\* candidates[0] of a Gemini response: its parts and finishReason
GeminiPart(kind) ==
  [text |-> IF kind = "text" THEN "hi" ELSE "", functionCall |-> kind = "functionCall"]

GeminiResponses ==
  { [adapter |-> "gemini",
     parts |-> [k \in DOMAIN kinds |-> GeminiPart(kinds[k])],
     finishReason |-> r] :
      kinds \in BoundedSeq({ "text", "empty", "functionCall" }, MaxParts),
      r \in { "STOP", "MAX_TOKENS", "SAFETY", "RECITATION" } }

\* the normalized ChatResponse: message.content, message.tool_calls (the
\* ids of the tool calls) and finish_reason
ChatResponse(provider, content, tool_calls, finish_reason) ==
  [provider |-> provider, content |-> content, tool_calls |-> tool_calls,
   finish_reason |-> finish_reason]

\* OpenAIProvider.normalizeResponse: content, tool_calls and finish_reason
\* are passed through
OpenAINormalizeResponse(r) ==
  ChatResponse("openai", r.content, r.tool_calls, r.finish_reason)

\* AnthropicProvider.mapStopReason
MapStopReason(reason) ==
  CASE reason = "end_turn" -> "stop"
    [] reason = "max_tokens" -> "length"
    [] reason = "stop_sequence" -> "stop"
    [] OTHER -> "null"

IsText(b) == b.type = "text"

IsToolUse(b) == b.type = "tool_use"

\* fromAnthropicResponse: the tool_use blocks, each with its block id
FromAnthropicResponse(content) ==
  LET blocks == SelectSeq(content, IsToolUse)
  IN  [k \in DOMAIN blocks |-> blocks[k].id]

\* AnthropicProvider.normalizeResponse
AnthropicNormalizeResponse(r) ==
  LET textBlocks == SelectSeq(r.content, IsText)
      toolBlocks == SelectSeq(r.content, IsToolUse)
  IN  ChatResponse("anthropic",
                   IF Len(textBlocks) > 0 THEN Text(textBlocks[1].text) ELSE Null,
                   IF Len(toolBlocks) > 0 THEN Some(FromAnthropicResponse(r.content))
                                          ELSE Undefined,
                   IF Len(toolBlocks) > 0 THEN "tool_calls"
                                          ELSE MapStopReason(r.stop_reason))

\* a part whose text is truthy
HasText(p) == p.text # ""

HasFunctionCall(p) == p.functionCall

\* fromGeminiResponse: one ToolCall per functionCall part, its id made of
\* the clock reading of its callback and its index among those parts
FromGeminiResponse(parts, clock) ==
  LET functionCalls == SelectSeq(parts, HasFunctionCall)
  IN  [k \in DOMAIN functionCalls |-> SynthesizedId(clock[k], k - 1)]

\* GeminiProvider.normalizeResponse
GeminiNormalizeResponse(r, clock) ==
  LET textParts == SelectSeq(r.parts, HasText)
      functionCalls == SelectSeq(r.parts, HasFunctionCall)
  IN  ChatResponse("gemini",
                   IF Len(textParts) > 0 THEN Text(textParts[1].text) ELSE Null,
                   IF Len(functionCalls) > 0 THEN Some(FromGeminiResponse(r.parts, clock))
                                              ELSE Undefined,
                   IF Len(functionCalls) > 0 THEN "tool_calls"
                                              ELSE MapFinishReason(r.finishReason))

\* the adapter's normalizeResponse
NormalizeVendorResponse(r, clock) ==
  CASE r.adapter = "openai" -> OpenAINormalizeResponse(r)
    [] r.adapter = "anthropic" -> AnthropicNormalizeResponse(r)
    [] r.adapter = "gemini" -> GeminiNormalizeResponse(r, clock)

\* request.tool_choice: absent, or one of the four ToolChoice values (the
\* object form pins the tool named "get_weather")
ToolChoices == { "undefined", "auto", "none", "required", "pin" }

\* the tool settings of the request an adapter sends upstream: whether it
\* carries tools, and the vendor's tool-choice setting ("absent": the
\* request has no such field)
UpstreamRequest(tools, setting) == [tools |-> tools, setting |-> setting]

\* OpenAIProvider.chat / chatStream: tools and tool_choice are spread into
\* the request when truthy
OpenAIToolRequest(tools, choice) ==
  UpstreamRequest(tools, IF choice = "undefined" THEN "absent" ELSE choice)

\* toAnthropicToolChoice
ToAnthropicToolChoice(choice) ==
  IF choice \in { "undefined", "auto" } THEN "absent"
  ELSE IF choice = "none" THEN "auto, disable_parallel_tool_use"
  ELSE IF choice = "required" THEN "any"
  ELSE IF choice = "pin" THEN "tool"
  ELSE "absent"

\* AnthropicProvider.chat / chatStream: tools and tool_choice are spread
\* into the request when request.tools is given
AnthropicToolRequest(tools, choice) ==
  UpstreamRequest(tools, IF tools THEN ToAnthropicToolChoice(choice) ELSE "absent")

\* GeminiProvider.chat / chatStream: getGenerativeModel is given the
\* function declarations and nothing of request.tool_choice
GeminiToolRequest(tools, choice) == UpstreamRequest(tools, "absent")

ToolRequest(adapter, tools, choice) ==
  CASE adapter = "openai" -> OpenAIToolRequest(tools, choice)
    [] adapter = "anthropic" -> AnthropicToolRequest(tools, choice)
    [] adapter = "gemini" -> GeminiToolRequest(tools, choice)

\* the complete arguments JSON of the k-th tool call of a stream, as its
\* tokens: one that only this call has, and the closing brace
Arguments(k) == << k, 0 >>

RECURSIVE Flatten(_)
Flatten(ss) == IF ss = <<>> THEN <<>> ELSE Head(ss) \o Flatten(Tail(ss))

\* a tool-call fragment of a StreamChunk: delta.tool_calls[n].index and
\* .function.arguments
Fragment(index, arguments) == [index |-> index, arguments |-> arguments]

\* the chunks OpenAI streams for n tool calls: for each call the chunk that
\* opens it and one chunk per token of its arguments, each tool_calls entry
\* with the call's index
OpenAIToolStream(n) ==
  Flatten([k \in 1..n |->
    << << [index |-> k - 1, arguments |-> <<>>] >> >> \o
    [j \in 1..Len(Arguments(k)) |->
       << [index |-> k - 1, arguments |-> << Arguments(k)[j] >>] >>]])

\* the events Anthropic streams for n tool calls after lead text blocks:
\* content_block_start and one input_json_delta per token, with the index
\* of the content block
AnthropicToolStream(lead, n) ==
  [j \in 1..lead |-> [type |-> "content_block_delta", index |-> j - 1,
                      delta |-> "text_delta", partial_json |-> <<>>]] \o
  Flatten([k \in 1..n |->
    << [type |-> "content_block_start", index |-> lead + k - 1,
        delta |-> "tool_use", partial_json |-> <<>>] >> \o
    [j \in 1..Len(Arguments(k)) |->
       [type |-> "content_block_delta", index |-> lead + k - 1,
        delta |-> "input_json_delta", partial_json |-> << Arguments(k)[j] >>]]])

\* the ways Gemini spreads n function calls over the chunks of a stream:
\* the number of functionCall parts of each chunk
RECURSIVE Splits(_)
Splits(n) ==
  IF n = 0 THEN { <<>> }
  ELSE UNION { { << m >> \o rest : rest \in Splits(n - m) } : m \in 1..n }

RECURSIVE SumTo(_, _)
SumTo(sizes, c) == IF c = 0 THEN 0 ELSE sizes[c] + SumTo(sizes, c - 1)

\* the chunks of a Gemini stream: each part a complete functionCall
GeminiToolStream(sizes) ==
  [c \in DOMAIN sizes |->
     [p \in 1..sizes[c] |-> [functionCall |-> TRUE,
                             args |-> Arguments(SumTo(sizes, c - 1) + p)]]]

\* the vendor streams of an adapter that calls n tools
ToolStreams(adapter, n) ==
  CASE adapter = "openai" -> { OpenAIToolStream(n) }
    [] adapter = "anthropic" -> { AnthropicToolStream(lead, n) : lead \in 0..1 }
    [] adapter = "gemini" -> { GeminiToolStream(sizes) : sizes \in Splits(n) }

\* OpenAIProvider.normalizeStreamChunk: delta.tool_calls mapped entry by
\* entry, index passed through
OpenAIToolFragments(vstream) ==
  Flatten([c \in DOMAIN vstream |->
    [e \in DOMAIN vstream[c] |-> Fragment(vstream[c][e].index, vstream[c][e].arguments)]])

\* AnthropicProvider.chatStream: a fragment for content_block_start of a
\* tool_use block and for each input_json_delta, index: event.index
AnthropicToolFragments(vstream) ==
  Flatten([c \in DOMAIN vstream |->
    (IF vstream[c].type = "content_block_start" /\ vstream[c].delta = "tool_use"
     THEN << Fragment(vstream[c].index, <<>>) >> ELSE <<>>) \o
    (IF vstream[c].type = "content_block_delta" /\ vstream[c].delta = "input_json_delta"
     THEN << Fragment(vstream[c].index, vstream[c].partial_json) >> ELSE <<>>)])

\* GeminiProvider.normalizeStreamChunk: the functionCall parts of a chunk,
\* each indexed by its position among them, arguments: JSON.stringify(args)
GeminiToolFragments(vstream) ==
  Flatten([c \in DOMAIN vstream |->
    LET functionCalls == SelectSeq(vstream[c], HasFunctionCall)
    IN  [idx \in DOMAIN functionCalls |-> Fragment(idx - 1, functionCalls[idx].args)]])

ToolFragments(adapter, vstream) ==
  CASE adapter = "openai" -> OpenAIToolFragments(vstream)
    [] adapter = "anthropic" -> AnthropicToolFragments(vstream)
    [] adapter = "gemini" -> GeminiToolFragments(vstream)

\* ---------------------------------------------- tool-calling operations
InitTools ==
  /\ entry = "tools"
  /\ providers = <<>>
  /\ maxRetries = 0
  /\ timeout = 0
  /\ isRetryable = "default"
  /\ NotCalled
  /\ NoOperation
  /\ inv = <<>>
  /\ NoAdapter
  /\ NoClient
  /\ NoVendorError
  /\ NoRetryRun
  /\ \/ \E r \in OpenAIResponses \cup AnthropicResponses \cup GeminiResponses :
          toolIn = [op |-> "normalizeResponse", adapter |-> r.adapter, response |-> r]
     \/ \E t \in {"openai", "anthropic", "gemini"}, tools \in BOOLEAN, c \in ToolChoices :
          toolIn = [op |-> "request", adapter |-> t, tools |-> tools, tool_choice |-> c]
     \/ \E t \in {"openai", "anthropic", "gemini"}, n \in 0..MaxParts :
          \E s \in ToolStreams(t, n) :
            toolIn = [op |-> "chatStream", adapter |-> t, toolCalls |-> n, stream |-> s]
  /\ toolOut = None

\* the adapter's chat receives the vendor's response and normalizes it
NormalizeVendor ==
  /\ toolIn.op = "normalizeResponse"
  /\ toolOut = None
  /\ \E clock \in Clocks(MaxParts) :
       toolOut' = NormalizeVendorResponse(toolIn.response, clock)
  /\ UNCHANGED <<providers, maxRetries, callVars, opVars, inv, adapterVars, ctorVars,
                 classVars, toolIn, backoff>>

\* the adapter's chat / chatStream builds the upstream request
BuildRequest ==
  /\ toolIn.op = "request"
  /\ toolOut = None
  /\ toolOut' = ToolRequest(toolIn.adapter, toolIn.tools, toolIn.tool_choice)
  /\ UNCHANGED <<providers, maxRetries, callVars, opVars, inv, adapterVars, ctorVars,
                 classVars, toolIn, backoff>>

\* the adapter's chatStream has re-emitted the tool-call fragments of the
\* whole vendor stream
StreamTools ==
  /\ toolIn.op = "chatStream"
  /\ toolOut = None
  /\ toolOut' = [fragments |-> ToolFragments(toolIn.adapter, toolIn.stream)]
  /\ UNCHANGED <<providers, maxRetries, callVars, opVars, inv, adapterVars, ctorVars,
                 classVars, toolIn, backoff>>

NextTools ==
  \/ NormalizeVendor
  \/ BuildRequest
  \/ StreamTools

SpecTools == InitTools /\ [][NextTools]_vars

\* ------------------------------------------------------------- backoff
\* the largest maxRetries a caller configures
MaxConfiguredRetries == 2

\* DEFAULT_RETRY_CONFIG
DefaultRetryConfig ==
  [maxRetries |-> 3, initialDelay |-> 1000, maxDelay |-> 60000, backoffMultiplier |-> 2]

\* the Partial<RetryConfig> the caller passes: each field absent or given
RetryConfigs ==
  [maxRetries : { <<FALSE, 0>> } \cup { <<TRUE, n>> : n \in 0..MaxConfiguredRetries },
   initialDelay : { <<FALSE, 0>>, <<TRUE, 100>> },
   maxDelay : { <<FALSE, 0>>, <<TRUE, 50>>, <<TRUE, 250>> },
   backoffMultiplier : { <<FALSE, 0>>, <<TRUE, 1>>, <<TRUE, 3>> }]

\* { ...DEFAULT_RETRY_CONFIG, ...config }
MergeRetryConfig(config) ==
  [f \in DOMAIN DefaultRetryConfig |->
     IF config[f][1] THEN config[f][2] ELSE DefaultRetryConfig[f]]

RECURSIVE Pow(_, _)
\* Math.pow on non-negative integers
Pow(b, e) == IF e = 0 THEN 1 ELSE b * Pow(b, e - 1)

Min(a, b) == IF a <= b THEN a ELSE b

\* variant: the delay is not capped
CalculateDelayUncapped(attempt, config) ==
  config.initialDelay * Pow(config.backoffMultiplier, attempt)

\* calculateDelay
CalculateDelay(attempt, config) ==
  Min(config.initialDelay * Pow(config.backoffMultiplier, attempt), config.maxDelay)

\* retry has been called: the merged configuration, the loop variable
\* attempt, the delays slept so far and what the loop is doing
InitBackoff ==
  /\ entry = "backoff"
  /\ providers = <<>>
  /\ maxRetries = 0
  /\ timeout = 0
  /\ isRetryable = "default"
  /\ NotCalled
  /\ NoOperation
  /\ inv = <<>>
  /\ NoAdapter
  /\ NoClient
  /\ NoVendorError
  /\ NoToolOperation
  /\ \E config \in RetryConfigs :
       backoff = [st |-> "inflight", given |-> config,
                  retryConfig |-> MergeRetryConfig(config), attempt |-> 0,
                  delays |-> <<>>]

\* fn resolves: retry returns its value
AttemptResolves ==
  /\ backoff.st = "inflight"
  /\ backoff' = [backoff EXCEPT !.st = "returned"]
  /\ UNCHANGED <<providers, maxRetries, callVars, opVars, inv, adapterVars, ctorVars,
                 classVars, toolVars>>

\* fn rejects: retry throws the error, or computes the delay and sleeps
AttemptRejects(shouldRetry) ==
  /\ backoff.st = "inflight"
  /\ backoff' =
       IF GivesUp(shouldRetry, backoff.attempt, backoff.retryConfig.maxRetries)
       THEN [backoff EXCEPT !.st = "threw"]
       ELSE [backoff EXCEPT !.st = "sleeping",
                            !.delays = Append(@, CalculateDelay(backoff.attempt,
                                                                backoff.retryConfig))]
  /\ UNCHANGED <<providers, maxRetries, callVars, opVars, inv, adapterVars, ctorVars,
                 classVars, toolVars>>

\* the sleep ends: attempt++ and fn is called again
BackoffSleepDone ==
  /\ backoff.st = "sleeping"
  /\ backoff' = [backoff EXCEPT !.st = "inflight", !.attempt = @ + 1]
  /\ UNCHANGED <<providers, maxRetries, callVars, opVars, inv, adapterVars, ctorVars,
                 classVars, toolVars>>

NextBackoff ==
  \/ AttemptResolves
  \/ \E shouldRetry \in BOOLEAN : AttemptRejects(shouldRetry)
  \/ BackoffSleepDone

SpecBackoff == InitBackoff /\ [][NextBackoff]_vars

\* ------------------------------------- model choice, construction, warnings
\* the requests made on one adapter
MaxRequests == 2

\* a string-valued field: <<FALSE, "">> is a missing field
Truthy(field) == field[1] /\ field[2] # ""

\* getProviderDefaultModel
ProviderDefaultModel(t) ==
  CASE t = "openai" -> "gpt-4o-mini"
    [] t = "anthropic" -> "claude-3-5-sonnet-20241022"
    [] t = "gemini" -> "gemini-2.0-flash-exp"

\* variant: the configured default is not looked at
GetDefaultModelHardcoded(t, config) == ProviderDefaultModel(t)

\* BaseProvider.getDefaultModel
GetDefaultModel(t, config) ==
  IF Truthy(config.defaultModel) THEN config.defaultModel[2] ELSE ProviderDefaultModel(t)

\* model: request.model || this.getDefaultModel()
UpstreamModel(t, request, config) ==
  IF Truthy(request.model) THEN request.model[2] ELSE GetDefaultModel(t, config)

\* the members of IProvider
Members == { "type", "config", "chat", "chatStream", "isConfigured" }

\* a custom provider class: whether it extends BaseProvider and the members
\* its instances have (BaseProvider gives config and isConfigured, abstract
\* methods are implemented)
CustomClasses ==
  { [base |-> FALSE, members |-> Members \ lacks] :
      lacks \in { {} } \cup { { m } : m \in Members } }
    \cup { [base |-> TRUE, members |-> Members \ lacks] : lacks \in { {}, { "type" } } }

\* config.apiKey: missing, blank, given
ApiKeys == { <<FALSE, "">>, <<TRUE, " ">>, <<TRUE, "key">> }

\* the provider configurations a caller writes; customProvider is
\* << FALSE, _ >> when the field is not given
ProviderConfigs ==
  [provider : { "openai", "anthropic", "gemini", "unknown" }, apiKey : ApiKeys,
   customProvider : { << FALSE, [base |-> FALSE, members |-> {}] >> }]
    \cup [provider : { "openai", "unknown" }, apiKey : ApiKeys,
          customProvider : { << TRUE, c >> : c \in CustomClasses }]

\* String.prototype.trim on the keys above
Trim(str) == IF str = " " THEN "" ELSE str

\* BaseProvider.validateApiKey: the message of the Error it throws, or ok
ValidateApiKey(config) ==
  IF (~Truthy(config.apiKey)) \/ Trim(config.apiKey[2]) = ""
  THEN "API key is required but was not provided"
  ELSE "ok"

\* variant: isConfigured is not asked for
ValidateProviderNoIsConfigured(instance) ==
  IF "type" \notin instance.members THEN "Custom provider must have a \"type\" property"
  ELSE IF "config" \notin instance.members
       THEN "Custom provider must have a \"config\" property"
  ELSE IF "chat" \notin instance.members
       THEN "Custom provider must implement chat() method"
  ELSE IF "chatStream" \notin instance.members
       THEN "Custom provider must implement chatStream() method"
  ELSE "ok"

\* AIClient.validateProvider: the message of the Error it throws, or ok
ValidateProvider(instance) ==
  IF "type" \notin instance.members THEN "Custom provider must have a \"type\" property"
  ELSE IF "config" \notin instance.members
       THEN "Custom provider must have a \"config\" property"
  ELSE IF "chat" \notin instance.members
       THEN "Custom provider must implement chat() method"
  ELSE IF "chatStream" \notin instance.members
       THEN "Custom provider must implement chatStream() method"
  ELSE IF "isConfigured" \notin instance.members
       THEN "Custom provider must implement isConfigured() method"
  ELSE "ok"

Instance(type, members) == [type |-> type, members |-> members]

Created(instance) == [ok |-> TRUE, instance |-> instance, error |-> ""]

Threw(message) == [ok |-> FALSE, instance |-> Instance("none", {}), error |-> message]

\* AIClient.createProvider
CreateProvider(config) ==
  IF config.customProvider[1]
  THEN LET class == config.customProvider[2]
           instance == Instance("custom", class.members)
       IN  IF class.base /\ ValidateApiKey(config) # "ok"
           THEN Threw(ValidateApiKey(config))
           ELSE IF ValidateProvider(instance) # "ok"
                THEN Threw(ValidateProvider(instance))
                ELSE Created(instance)
  ELSE IF config.provider \in { "openai", "anthropic", "gemini" }
       THEN IF ValidateApiKey(config) # "ok"
            THEN Threw(ValidateApiKey(config))
            ELSE Created(Instance(config.provider, Members))
       ELSE Threw("Unknown provider")

\* new AIClient(config): configs[1] is the configuration itself, the rest
\* its fallbacks; the first Error thrown ends the construction
NewAIClient(configs) ==
  LET made == [k \in DOMAIN configs |-> CreateProvider(configs[k])]
      bad == { k \in DOMAIN configs : ~made[k].ok }
  IN  IF bad = {}
      THEN [constructed |-> TRUE, error |-> "",
            chain |-> [k \in DOMAIN configs |-> made[k].instance]]
      ELSE [constructed |-> FALSE, chain |-> <<>>,
            error |-> made[CHOOSE k \in bad : \A j \in bad : k <= j].error]

\* the console.warn calls of one validateRequest that did not throw, for a
\* request using none, one or both of the legacy function-calling fields
DeprecationWarnings(debug, uses) ==
  IF ~debug THEN <<>>
  ELSE (IF uses \in { "functions", "both" } THEN << "functions" >> ELSE <<>>)
       \o (IF uses \in { "function_call", "both" } THEN << "function_call" >> ELSE <<>>)

InitOps ==
  /\ entry = "operation"
  /\ providers = <<>>
  /\ maxRetries = 0
  /\ timeout = 0
  /\ isRetryable = "default"
  /\ NotCalled
  /\ inv = <<>>
  /\ NoAdapter
  /\ NoClient
  /\ NoVendorError
  /\ NoToolOperation
  /\ NoRetryRun
  /\ \/ /\ \E t \in {"openai", "anthropic", "gemini"} :
           \E m, d \in { <<FALSE, "">>, <<TRUE, "">>, <<TRUE, "given">> } :
            opIn = [op |-> "model", adapter |-> t, request |-> [model |-> m],
                    config |-> [defaultModel |-> d]]
        /\ opOut = None
     \/ /\ \E n \in 1..MaxProviders : \E configs \in [1..n -> ProviderConfigs] :
            opIn = [op |-> "constructor", configs |-> configs]
        /\ opOut = None
     \/ /\ \E debug \in BOOLEAN, n \in 1..MaxRequests : \E uses \in [1..n -> { "none", "functions", "function_call", "both" }] :
            opIn = [op |-> "validateRequest", debug |-> debug, requests |-> uses]
        /\ opOut = [done |-> 0, warnings |-> <<>>]

\* chat / chatStream of an adapter chooses the model of the upstream request
ChooseModel ==
  /\ opIn.op = "model"
  /\ opOut = None
  /\ opOut' = [model |-> UpstreamModel(opIn.adapter, opIn.request, opIn.config)]
  /\ UNCHANGED <<providers, maxRetries, callVars, inv, adapterVars, ctorVars,
                 classVars, toolVars, backoff, opIn>>

\* the caller runs new AIClient(config)
Construction ==
  /\ opIn.op = "constructor"
  /\ opOut = None
  /\ opOut' = NewAIClient(opIn.configs)
  /\ UNCHANGED <<providers, maxRetries, callVars, inv, adapterVars, ctorVars,
                 classVars, toolVars, backoff, opIn>>

\* the next chat / chatStream call on the adapter (a request of the caller
\* or an attempt of retry) runs validateRequest
ValidateNext ==
  /\ opIn.op = "validateRequest"
  /\ opOut.done < Len(opIn.requests)
  /\ opOut' = [done |-> opOut.done + 1,
               warnings |-> opOut.warnings
                              \o DeprecationWarnings(opIn.debug, opIn.requests[opOut.done + 1])]
  /\ UNCHANGED <<providers, maxRetries, callVars, inv, adapterVars, ctorVars,
                 classVars, toolVars, backoff, opIn>>

NextOps ==
  \/ ChooseModel
  \/ Construction
  \/ ValidateNext

SpecOps == InitOps /\ [][NextOps]_vars

\* ------------------------------------------------------------- properties
TypeOK ==
  /\ pc \in {"init", "running", "resolved", "rejected"}
  /\ \A i \in Hops : calls[i] \in 0..(maxRetries + 1)

Settled(p) == p.tag \in {"value", "error"}

LoopSettled(l) == l.st \in {"returned", "threw"}

\* C1: chat tries the providers strictly in chain order: provider i+1 is
\* called only once the retry-wrapped call of provider i has failed, and a
\* hop that succeeds resolves chat with its response, no later provider
\* being called.
C1_StrictOrder ==
  entry = "chat" =>
    /\ \A i \in Hops : (i > 1 /\ calls[i] > 0) => hop[i - 1].tag = "error"
    /\ \A i \in Hops : hop[i].tag = "value" =>
          /\ pc = "resolved"
          /\ result = hop[i]
          /\ \A j \in Hops : j > i => calls[j] = 0

C1_Witness ==
  /\ entry = "chat"
  /\ Len(providers) >= 2
  /\ hop[1].tag = "error"
  /\ calls[1] >= 2
  /\ hop[2].tag = "value"
  /\ pc = "resolved"

\* C2: chat rejects only when every provider of the chain was attempted and
\* failed; a failed hop that is not the last one is always followed by a
\* call of the next provider, whatever the retryable flag of its error.
C2_AllTriedBeforeReject ==
  entry = "chat" =>
    /\ pc = "rejected" =>
          \A i \in Hops : calls[i] >= 1 /\ hop[i].tag = "error"
    /\ \A i \in Hops : (i < Len(providers) /\ hop[i].tag = "error") =>
          calls[i + 1] >= 1

C2_Witness ==
  /\ entry = "chat"
  /\ Len(providers) >= 2
  /\ pc = "rejected"
  /\ hop[1].type = "rate_limit_error"
  /\ hop[2].type = "authentication_error"

\* C3: when every provider fails, chat rejects with the error the last
\* provider tried produced, and the provider field of that error is the
\* type of that last provider.
C3_LastProviderError ==
  (entry = "chat" /\ pc = "rejected") =>
    /\ result.origin[1] = cur
    /\ result.origin[2] >= 1
    /\ result.provider = providers[cur]

\* C4: a primary whose chat fails with a non-retryable structured error is
\* called exactly once and the fallback is called next; a fallback that
\* succeeds on its first attempt is called exactly once and chat resolves
\* with a response whose provider field is the fallback's type.
C4_NonRetryableFallsBack ==
  ( /\ entry = "chat"
    /\ Len(providers) >= 2
    /\ Len(hist[1]) >= 1
    /\ hist[1][1].tag = "error"
    /\ hist[1][1].structured
    /\ ~hist[1][1].retryable ) =>
    /\ calls[1] = 1
    /\ calls[2] >= 1
    /\ (Len(hist[2]) >= 1 /\ hist[2][1].tag = "value") => calls[2] = 1
    /\ hop[2].tag = "value" =>
          /\ pc = "resolved"
          /\ result.provider = providers[2]

C4_Witness ==
  /\ entry = "chat"
  /\ Len(providers) >= 2
  /\ hist[1] # <<>>
  /\ hist[1][1].type = "authentication_error"
  /\ calls[1] = 1
  /\ calls[2] = 1
  /\ pc = "resolved"
  /\ result.provider = "anthropic"

\* every settled call of provider i failed with a retryable structured error
AllRetryableFailures(i) ==
  /\ Len(hist[i]) >= 1
  /\ \A k \in 1..Len(hist[i]) :
        hist[i][k].tag = "error" /\ hist[i][k].structured /\ hist[i][k].retryable

\* C5 as stated: the next provider is first called only after the retry
\* budget (maxRetries+1 attempts) of a provider failing with retryable
\* errors has been used up.
C5_Original ==
  entry = "chat" =>
    \A i \in Hops :
      (i < Len(providers) /\ calls[i + 1] > 0 /\ AllRetryableFailures(i)) =>
        calls[i] = maxRetries + 1

\* C5 amended: the next provider is first called only after the retry budget
\* of a provider failing with retryable errors has been used up, or after
\* the client-level timer of that hop has fired.
C5_BudgetOrTimeout ==
  entry = "chat" =>
    \A i \in Hops :
      (i < Len(providers) /\ calls[i + 1] > 0 /\ AllRetryableFailures(i)) =>
        \/ calls[i] = maxRetries + 1 /\ Len(hist[i]) = maxRetries + 1
        \/ hop[i].type = "timeout_error" /\ hop[i].origin = <<i, 0>>

C5_Witness ==
  /\ entry = "chat"
  /\ Len(providers) >= 2
  /\ maxRetries >= 1
  /\ calls[2] > 0
  /\ AllRetryableFailures(1)
  /\ calls[1] = maxRetries + 1
  /\ hop[1].type = "rate_limit_error"

\* retryable as the claims define it: the flag of a structured error, else
\* the caller's predicate (which defaults to true)
ClaimRetryable(e) ==
  IF e.structured THEN e.retryable ELSE isRetryable # "never"

\* C6: retry invokes fn at most maxRetries+1 times: exactly maxRetries+1
\* times when every attempt fails with a retryable error, exactly j times
\* when attempt j is the first to succeed, and it then resolves with that
\* attempt's value.
C6_AttemptCount ==
  \A i \in Hops :
    /\ calls[i] <= maxRetries + 1
    /\ ( /\ loop[i].st = "threw"
          /\ \A k \in 1..Len(hist[i]) :
                hist[i][k].tag = "error" /\ ClaimRetryable(hist[i][k]) ) =>
          calls[i] = maxRetries + 1
    /\ \A j \in 1..Len(hist[i]) : hist[i][j].tag = "value" =>
          /\ calls[i] = j
          /\ \A k \in 1..(j - 1) : hist[i][k].tag = "error"
          /\ loop[i].st = "returned"
          /\ loop[i].out = hist[i][j]

C6_Witness ==
  /\ loop[1].st = "returned"
  /\ calls[1] = 2
  /\ maxRetries = 1
  /\ loop[1].out.origin = <<1, 2>>

\* attempt k of hop i was followed by another attempt (made or scheduled)
AnotherAttempt(i, k) ==
  \/ calls[i] > k
  \/ Len(hist[i]) = k /\ loop[i].st = "sleeping"

\* C7: after a failed attempt retry makes another attempt iff budget remains
\* and the error is retryable: by its own flag for an AIIntegratorError
\* (the predicate is not consulted), by the isRetryable predicate otherwise.
C7_RetryIffRetryable ==
  \A i \in Hops : \A k \in 1..Len(hist[i]) :
    hist[i][k].tag = "error" =>
      (AnotherAttempt(i, k) <=> (k <= maxRetries /\ ClaimRetryable(hist[i][k])))

C7_Witness ==
  /\ entry = "retry"
  /\ isRetryable = "never"
  /\ Len(hist[1]) = 2
  /\ hist[1][1].type = "rate_limit_error"
  /\ hist[1][2].type = "Error"
  /\ calls[1] = 2
  /\ loop[1].st = "threw"

\* C8: when retry gives up it rejects with the error of the last attempt of
\* fn, the same object, neither wrapped nor an earlier attempt's error.
C8_LastErrorUnchanged ==
  \A i \in Hops : loop[i].st = "threw" =>
    /\ loop[i].out = hist[i][Len(hist[i])]
    /\ loop[i].out.origin = <<i, calls[i]>>
    /\ ~loop[i].out.wrapped

C8_Witness ==
  /\ loop[1].st = "threw"
  /\ calls[1] = 2
  /\ hist[1][1].type = "Error"
  /\ loop[1].out.type = "authentication_error"

\* C9: retryWithTimeout settles with whichever of the retrying operation and
\* the timer settles first: the operation's value or error, or a new
\* retryable timeout_error; the later settlement of the other side leaves
\* the outcome as it is.
C9_FirstSettlementWins ==
  [][\A i \in Hops : timer[i] # "unset" =>
       /\ Settled(hop[i]) => hop'[i] = hop[i]
       /\ (hop[i].tag = "pending" /\ LoopSettled(loop'[i])) =>
             hop'[i] = loop'[i].out
       /\ (hop[i].tag = "pending" /\ timer'[i] = "fired") =>
             /\ hop'[i].tag = "error"
             /\ hop'[i].structured
             /\ hop'[i].type = "timeout_error"
             /\ hop'[i].retryable
             /\ hop'[i].origin = <<i, 0>>
       /\ (hop[i].tag = "pending" /\ Settled(hop'[i])) =>
             LoopSettled(loop'[i]) \/ timer'[i] = "fired"]_vars

C9_Witness ==
  /\ entry = "retryWithTimeout"
  /\ hop[1].type = "timeout_error"
  /\ hop[1].origin = <<1, 0>>
  /\ loop[1].st = "returned"
  /\ pc = "rejected"

MovedOn(i) == cur > i \/ pc \in {"resolved", "rejected"}

\* C11 as stated: within one chat call no two different providers have a
\* call in flight at the same time, a client-level timeout included.
C11_Original ==
  entry = "chat" =>
    \A i, j \in Hops :
      (loop[i].st = "inflight" /\ loop[j].st = "inflight") => i = j

\* C11 amended: within one chat call two different providers have calls in
\* flight at the same time only when a client-level timeout is configured
\* and the hop of the earlier provider was ended by its timer.
C11_ConcurrentOnlyAfterTimeout ==
  entry = "chat" =>
    \A i, j \in Hops :
      (i < j /\ loop[i].st = "inflight" /\ calls[j] > 0) =>
        /\ timeout # 0
        /\ timer[i] = "fired"
        /\ hop[i].type = "timeout_error"
        /\ hop[i].origin = <<i, 0>>

C11_Witness ==
  /\ entry = "chat"
  /\ Len(providers) >= 2
  /\ timeout # 0
  /\ loop[1].st = "inflight"
  /\ loop[2].st = "inflight"
  /\ hop[1].type = "timeout_error"

\* C12 as stated: within one chat call there is no backward transition:
\* once the orchestrator has moved on from provider i, provider i's chat is
\* not invoked again; after retryWithTimeout rejected with a timeout the
\* retry loop starts no further attempt.
C12_Original ==
  [][entry = "chat" =>
       \A i \in Hops : MovedOn(i) => calls'[i] = calls[i]]_vars

\* C12 amended: once the orchestrator has moved on from provider i, the
\* orchestrator does not go back to it and provider i's chat is invoked
\* again only by the retry loop of a hop that was ended by its timeout
\* timer: that loop, not cancelled, makes its remaining attempts within
\* the budget, and their outcome changes nothing of what chat does.
C12_OnlyAbandonedLoopCallsAgain ==
  [][entry = "chat" =>
       /\ cur' >= cur
       /\ \A i \in Hops : MovedOn(i) =>
             /\ hop'[i] = hop[i]
             /\ calls'[i] # calls[i] =>
                   /\ timeout # 0
                   /\ hop[i].type = "timeout_error"
                   /\ hop[i].origin = <<i, 0>>
                   /\ calls'[i] <= maxRetries + 1
                   /\ UNCHANGED <<pc, cur, result, lastError>>]_vars

C12_Witness ==
  /\ entry = "chat"
  /\ Len(providers) >= 2
  /\ hop[1].type = "timeout_error"
  /\ pc = "resolved"
  /\ result.provider = providers[2]
  /\ calls[1] = 2
  /\ loop[1].st = "inflight"

RECURSIVE ChunksUpTo(_, _)
\* the chunks provider i's adapter makes of its first k upstream events
ChunksUpTo(i, k) ==
  IF k = 0 THEN <<>>
  ELSE ChunksUpTo(i, k - 1) \o AdapterChunks(providers[i], events[i][k], <<i, k>>)

\* the chunks of provider i among those the caller received
Segment(i) == SelectSeq(delivered, LAMBDA c : c.src[1] = i)

IsPrefix(a, b) == Len(a) <= Len(b) /\ SubSeq(b, 1, Len(a)) = a

StreamProgress ==
  entry = "chatStream" =>
    /\ \A i \in Hops : calls[i] <= 1
    /\ \A i \in Hops : (stream[i] = "failed" /\ i < Len(providers)) =>
          /\ calls[i + 1] = 1
          /\ stream[i + 1] # "idle"
          /\ IsPrefix(Segment(i + 1), ChunksUpTo(i + 1, Len(events[i + 1])))
    /\ \A i \in Hops : stream[i] = "done" =>
          /\ pc = "resolved"
          /\ \A j \in Hops : j > i => calls[j] = 0
          /\ \A j \in Hops : j < i => stream[j] = "failed"
          /\ Segment(i) = ChunksUpTo(i, Len(events[i]))
          /\ events[i][Len(events[i])] \in FinalEvents(providers[i])
    /\ pc = "resolved" => stream[cur] = "done"
    /\ pc = "rejected" => \A i \in Hops : stream[i] = "failed"
    /\ \A a, b \in DOMAIN delivered : a < b => delivered[a].src[1] <= delivered[b].src[1]

\* C14: chatStream applies no retry: each provider's chatStream is started
\* at most once; when provider i's stream fails the chunks already yielded
\* stay delivered and provider i+1's stream is started from its beginning;
\* the first provider whose stream completes ends the generator, the caller
\* having received the partial outputs of the failed providers followed by
\* the complete stream of the successful one.
C14_StreamNoRetry ==
  [][StreamProgress' /\ (entry = "chatStream" => IsPrefix(delivered, delivered'))]_vars

C14_Witness ==
  /\ entry = "chatStream"
  /\ maxRetries >= 1
  /\ Len(providers) >= 2
  /\ stream[1] = "failed"
  /\ hop[1].retryable
  /\ Len(Segment(1)) >= 1
  /\ stream[2] = "done"
  /\ Len(Segment(2)) >= 2

\* the upstream event carries text, a tool call or the end of the message
CarriesOutput(t, ev) ==
  \/ t \in {"openai", "gemini"}
  \/ ev.sub \in {"text_delta", "tool_use", "input_json_delta"}
  \/ ev.type = "message_stop"

\* C15: within one adapter stream each upstream event produces zero or one
\* StreamChunk, the chunks come in upstream order, none dropped, duplicated
\* or reordered, and chatStream hands the provider's chunks on unchanged and
\* in the same order.
C15_ChunkOrder ==
  entry = "chatStream" =>
    /\ \A i \in Hops : \A k \in 1..Len(events[i]) :
          /\ Cardinality({ j \in DOMAIN delivered : delivered[j].src = <<i, k>> }) <= 1
          /\ CarriesOutput(providers[i], events[i][k]) =>
                \E j \in DOMAIN delivered : delivered[j].src = <<i, k>>
    /\ \A a, b \in DOMAIN delivered : a < b =>
          \/ delivered[a].src[1] < delivered[b].src[1]
          \/ /\ delivered[a].src[1] = delivered[b].src[1]
             /\ delivered[a].src[2] < delivered[b].src[2]
    /\ \A j \in DOMAIN delivered :
          LET i == delivered[j].src[1]
              k == delivered[j].src[2]
          IN  /\ i \in Hops
              /\ k \in 1..Len(events[i])
              /\ delivered[j].provider = providers[i]
              /\ AdapterChunks(providers[i], events[i][k], <<i, k>>) = << delivered[j] >>

C15_Witness ==
  /\ entry = "chatStream"
  /\ providers[1] = "anthropic"
  /\ Len(events[1]) = 3
  /\ events[1][1].type = "message_delta"
  /\ events[1][2].sub = "input_json_delta"
  /\ events[1][3].type = "message_stop"
  /\ Len(delivered) = 2
  /\ pc = "resolved"

HasFinish(c) == c.finish_reason \notin {"null", "undefined"}

\* C16: every stream consumed to completion from chatStream contains exactly
\* one chunk with a non-null finish_reason, and that chunk is the last one.
C16_ExactlyOneFinish ==
  (entry = "chatStream" /\ pc = "resolved") =>
    /\ delivered # <<>>
    /\ Cardinality({ j \in DOMAIN delivered : HasFinish(delivered[j]) }) = 1
    /\ HasFinish(delivered[Len(delivered)])

ErrorTypes ==
  { "authentication_error", "rate_limit_error", "invalid_request_error",
    "api_error", "timeout_error", "network_error", "unknown_error" }

\* C19: every error chat rejects with or chatStream throws is an
\* AIIntegratorError with a defined type and a boolean retryable: a
\* structured error is passed through as it is, any other thrown value is
\* wrapped as unknown_error, not retryable, with the failing provider's type
\* as provider and the thrown value as originalError.
C19_StructuredRejection ==
  (entry \in {"chat", "chatStream"} /\ pc = "rejected") =>
    /\ result.tag = "error"
    /\ result.structured
    /\ result.type \in ErrorTypes
    /\ result.retryable \in BOOLEAN
    /\ hop[cur].tag = "error"
    /\ hop[cur].structured => result = hop[cur]
    /\ ~hop[cur].structured =>
          /\ result.type = "unknown_error"
          /\ ~result.retryable
          /\ result.provider = providers[cur]
          /\ result.origin = hop[cur].origin
          /\ result.wrapped

C19_Witness ==
  /\ entry = "chatStream"
  /\ pc = "rejected"
  /\ cur = 2
  /\ hop[1].structured
  /\ ~hop[2].structured
  /\ result.type = "unknown_error"
  /\ result.provider = "anthropic"

\* C13: every chat or chatStream invocation starts at the primary provider,
\* whatever earlier or concurrently running invocations on the same client
\* did; an invocation whose primary succeeds at once issues exactly one
\* upstream call.
C13_StartsAtPrimary ==
  \A k \in DOMAIN inv :
    /\ inv[k].pc # "idle" => inv[k].first = 1
    /\ inv[k].out1 = "value" =>
          /\ inv[k].pc = "resolved"
          /\ inv[k].upstream = 1
          /\ inv[k].cur = 1

C13_Witness ==
  /\ inv[1].pc = "resolved"
  /\ inv[1].cur = 2
  /\ inv[2].pc = "resolved"
  /\ inv[2].first = 1
  /\ inv[2].out1 = "value"
  /\ inv[2].upstream = 1

SingleHandle ==
  /\ sdk.started <= 1
  /\ sdk.created <= 1
  /\ \A c \in DOMAIN acall :
        acall[c].pc \in {"request", "done"} =>
          /\ acall[c].handle # 0
          /\ acall[c].handle = sdk.client

\* C17: under any interleaving of concurrent chat / chatStream calls on one
\* adapter, concurrent first calls included, the SDK client initialization
\* is started at most once and at most one client handle is created; once
\* set the handle never changes and every call uses that handle.
C17_SingleInitialization ==
  [][SingleHandle' /\ (sdk.client # 0 => sdk'.client = sdk.client)]_vars

C17_Witness ==
  /\ acall[1].waited
  /\ acall[2].waited
  /\ ~acall[3].waited
  /\ \A c \in DOMAIN acall : acall[c].pc = "done" /\ acall[c].handle = 1
  /\ sdk.started = 1

\* the priority fallback k was configured with, a missing one counting as 0
ConfiguredPriority(k) ==
  IF given.fallbacks[k].hasPriority THEN given.fallbacks[k].priority ELSE 0

ChainSorted ==
  constructed =>
    /\ Len(chain) = Len(given.fallbacks) + 1
    /\ chain[1] = 0
    /\ \A k \in DOMAIN given.fallbacks : \E j \in 2..Len(chain) : chain[j] = k
    /\ \A a, b \in 2..Len(chain) : a < b =>
          \/ ConfiguredPriority(chain[a]) < ConfiguredPriority(chain[b])
          \/ /\ ConfiguredPriority(chain[a]) = ConfiguredPriority(chain[b])
             /\ chain[a] < chain[b]

\* C18: the fallback chain is fixed at construction: fallbacks come in
\* ascending priority, a fallback without a priority counting as priority 0
\* and fallbacks of equal priority keeping their configuration order, and
\* the primary comes before every fallback whatever the priority values.
C18_ChainFixedAndSorted ==
  [][ChainSorted' /\ (constructed => chain' = chain)]_vars

C18_Witness ==
  /\ constructed
  /\ chain = <<0, 2, 3, 1>>
  /\ given.primary.priority = 1
  /\ ~given.fallbacks[2].hasPriority
  /\ given.fallbacks[3].hasPriority
  /\ given.fallbacks[1].priority = 1
  /\ cfgFallbacks[1].priority = -1
  /\ cfgFallbacks[1].pos = 2

Classified(type, retryable) ==
  classified.type = type /\ classified.retryable = retryable

\* C20: every built-in adapter classifies a vendor error by HTTP status:
\* 401 authentication_error, not retryable; 429 rate_limit_error, retryable;
\* 400 invalid_request_error, not retryable; 500 and above api_error,
\* retryable; and without those statuses a connection-refused / DNS code is
\* a retryable network_error, an abort / timeout code a retryable
\* timeout_error.
C20_StatusClassification ==
  classified # None =>
    /\ verr.status = 401 => Classified("authentication_error", FALSE)
    /\ verr.status = 429 => Classified("rate_limit_error", TRUE)
    /\ verr.status = 400 => Classified("invalid_request_error", FALSE)
    /\ verr.status >= 500 => Classified("api_error", TRUE)
    /\ (verr.status \in {0, 403} /\ verr.code \in {"ECONNREFUSED", "ENOTFOUND"}) =>
          Classified("network_error", TRUE)
    /\ (verr.status \in {0, 403} /\ verr.code \in {"ECONNABORTED", "ETIMEDOUT"}) =>
          Classified("timeout_error", TRUE)

\* no classification rule of the adapter matches the vendor error
Unmatched(e) ==
  /\ e.status \in {0, 403}
  /\ e.adapter \in {"openai", "anthropic"} => e.code = ""
  /\ e.adapter = "gemini" => e.msg = {}

\* C21: a vendor error that matches none of an adapter's classification
\* rules is surfaced by that adapter as unknown_error, not retryable.
C21_UnmatchedIsUnknown ==
  (classified # None /\ Unmatched(verr)) => Classified("unknown_error", FALSE)

\* the retryable flag of e agrees with its kind; status is the HTTP status
\* it stems from, 0 when there is none
KindConsistent(e, status) ==
  /\ e.type \in {"authentication_error", "invalid_request_error"} => ~e.retryable
  /\ e.type \in {"rate_limit_error", "timeout_error", "network_error"} => e.retryable
  /\ e.type = "api_error" => (e.retryable <=> status >= 500)

\* C22: every AIIntegratorError made by a built-in adapter or by the retry /
\* timeout engine has a retryable flag that agrees with its kind:
\* authentication_error and invalid_request_error never retryable,
\* rate_limit_error, timeout_error and network_error always, api_error
\* exactly when it stems from a status of 500 or above.
C22_RetryableMatchesKind ==
  /\ classified # None =>
        /\ classified.structured
        /\ classified.type \in ErrorTypes
        /\ KindConsistent(classified, verr.status)
  /\ KindConsistent(TimeoutError(1), 0)

C22_Witness ==
  /\ classified.type = "api_error"
  /\ classified.retryable
  /\ verr.status = 503
  /\ verr.adapter = "openai"
  /\ verr.code = "ECONNREFUSED"

\* C23: when an adapter's lazy SDK construction fails, chat and chatStream
\* on that adapter fail with an api_error that is not retryable: retry makes
\* no further attempt and AIClient.chat goes on to a fallback.
C23_InitFailureNotRetryable ==
  \A c \in DOMAIN acall :
    (acall[c].pc = "failed" /\ sdk.promise = "rejected") =>
      /\ acall[c].err.tag = "error"
      /\ acall[c].err.structured
      /\ acall[c].err.type = "api_error"
      /\ ~acall[c].err.retryable
      /\ acall[c].err.provider = providers[1]
      /\ acall[c].handle = 0
      /\ GivesUp(ShouldRetry(acall[c].err, "default"), 0, MaxRetriesBound)
      /\ CatchDecision(1, WrapError(acall[c].err, providers[1]), 2) = "continue"

C23_Witness ==
  /\ providers[1] = "gemini"
  /\ sdk.promise = "rejected"
  /\ acall[1].pc = "failed"
  /\ acall[1].waited
  /\ acall[2].pc = "failed"
  /\ ~acall[2].waited
  /\ acall[1].kind = "chat"
  /\ acall[2].kind = "chatStream"

\* the request fails validation as the claims state it
ClaimInvalid(r) ==
  \/ r.msgs = 0
  \/ r.temperature[1] /\ (r.temperature[2] < 0 \/ r.temperature[2] > 2)
  \/ r.max_tokens[1] /\ r.max_tokens[2] < 1

\* C24: for every adapter a request that fails validation (empty messages,
\* temperature outside [0,2], max_tokens below 1) makes chat and chatStream
\* fail before the SDK client is initialized and before any upstream call,
\* the outcome being the same for every adapter.
C24_ValidationFirst ==
  ClaimInvalid(req) =>
    /\ sdk = [client |-> 0, promise |-> "null", started |-> 0, created |-> 0]
    /\ \A c \in DOMAIN acall :
          /\ acall[c].pc \in {"idle", "failed"}
          /\ acall[c].handle = 0
          /\ ~acall[c].waited
          /\ acall[c].pc = "failed" => acall[c].err = RawError(<<c, 0>>)

C24_Witness ==
  /\ req.msgs = 1
  /\ req.temperature = <<TRUE, 3>>
  /\ providers[1] = "anthropic"
  /\ \A c \in DOMAIN acall : acall[c].pc = "failed"
  /\ acall[1].kind = "chat"
  /\ acall[2].kind = "chatStream"

\* an adapter has normalized the vendor's response
Normalized == toolIn.op = "normalizeResponse" /\ toolOut # None

\* the normalized message carries a non-empty tool_calls list
CarriesToolCalls == toolOut.tool_calls[1] /\ Len(toolOut.tool_calls[2]) > 0

\* C25: for every adapter, whenever the normalized ChatResponse message
\* carries a non-empty tool_calls list, the response's finish_reason is
\* tool_calls, whatever the vendor's native stop reason.
C25_ToolCallsForceFinishReason ==
  (Normalized /\ CarriesToolCalls) => toolOut.finish_reason = "tool_calls"

\* C26: in every ChatResponse produced by an adapter, message.content is
\* null only if message.tool_calls is non-empty.
C26_NullContentOnlyWithToolCalls ==
  (Normalized /\ toolOut.content = Null) => CarriesToolCalls

\* C29: within one normalized response every ToolCall has an id distinct
\* from the ids of the other tool calls of that response, the ids
\* synthesized for Gemini included.
C29_ToolCallIdsDistinct ==
  (Normalized /\ CarriesToolCalls) =>
    \A i, j \in DOMAIN toolOut.tool_calls[2] :
      i # j => toolOut.tool_calls[2][i] # toolOut.tool_calls[2][j]

C29_Witness ==
  /\ Normalized
  /\ toolIn.adapter = "gemini"
  /\ toolOut.tool_calls[1]
  /\ Len(toolOut.tool_calls[2]) = MaxParts
  /\ \A i \in DOMAIN toolOut.tool_calls[2] :
        /\ toolOut.tool_calls[2][i].by = "call"
        /\ toolOut.tool_calls[2][i].t = toolOut.tool_calls[2][1].t

\* an adapter's chatStream has re-emitted the tool-call fragments
Streamed == toolIn.op = "chatStream" /\ toolOut # None

FragmentIndexes ==
  { toolOut.fragments[i].index : i \in DOMAIN toolOut.fragments }

\* function.arguments of the fragments with one index, concatenated in
\* arrival order
ConcatenatedAt(index) ==
  LET own == SelectSeq(toolOut.fragments, LAMBDA f : f.index = index)
  IN  Flatten([k \in DOMAIN own |-> own[k].arguments])

\* C27: in any adapter's stream the fragments with the same index belong
\* to the same tool call and distinct tool calls carry distinct indexes:
\* concatenating function.arguments per index in arrival order yields
\* exactly the complete arguments JSON of each tool call.
C27_FragmentsConcatenatePerIndex ==
  Streamed =>
    /\ Cardinality(FragmentIndexes) = toolIn.toolCalls
    /\ { ConcatenatedAt(i) : i \in FragmentIndexes }
         = { Arguments(k) : k \in 1..toolIn.toolCalls }

\* an adapter has built the upstream request of a request with tools
Built == toolIn.op = "request" /\ toolOut # None /\ toolIn.tools

\* what the vendor's API lets the model answer to an upstream request:
\* text only, a call of the pinned tool, a call of another tool
VendorAllows(upstream) ==
  IF ~upstream.tools THEN { "text" }
  ELSE CASE upstream.setting = "none" -> { "text" }
         [] upstream.setting \in { "required", "any" } -> { "named", "other" }
         [] upstream.setting \in { "pin", "tool" } -> { "named" }
         [] OTHER -> { "text", "named", "other" }

\* C28: for every adapter each of the four tool_choice values is carried
\* into the upstream request as the vendor's equivalent or closest mode; a
\* non-auto constraint is never silently dropped: none prevents tool use,
\* required forces some tool, pin forces the named tool.
C28_ToolChoiceCarried ==
  Built =>
    /\ toolIn.tool_choice \in { "none", "required", "pin" } => toolOut.setting # "absent"
    /\ toolIn.tool_choice = "none" => VendorAllows(toolOut) = { "text" }
    /\ toolIn.tool_choice = "required" => "text" \notin VendorAllows(toolOut)
    /\ toolIn.tool_choice = "pin" => VendorAllows(toolOut) = { "named" }

\* the delay slept before attempt k of the run (attempts counted from 1)
DelayBefore(k) == backoff.delays[k - 1]

\* the attempts of the run that were preceded by a sleep
DelayedAttempts == 2..(Len(backoff.delays) + 1)

\* C30 as stated: the delay before attempt k (attempts 1-indexed) is
\* min(initialDelay * backoffMultiplier^(k-1), maxDelay).
C30_Original ==
  backoff.st # "none" =>
    \A k \in DelayedAttempts :
      DelayBefore(k) = Min(backoff.retryConfig.initialDelay
                             * Pow(backoff.retryConfig.backoffMultiplier, k - 1),
                           backoff.retryConfig.maxDelay)

\* C30: the delay retry waits before attempt k (attempts 1-indexed, k >= 2)
\* is min(initialDelay * backoffMultiplier^(k-2), maxDelay); a field the
\* caller leaves out has its default (maxRetries 3, initialDelay 1000 ms,
\* maxDelay 60000 ms, backoffMultiplier 2); no delay exceeds maxDelay, and
\* no delay is waited before the first or after the final attempt.
C30_DelayBeforeAttempt ==
  backoff.st # "none" =>
    /\ \A k \in DelayedAttempts :
          /\ DelayBefore(k) = Min(backoff.retryConfig.initialDelay
                                    * Pow(backoff.retryConfig.backoffMultiplier, k - 2),
                                  backoff.retryConfig.maxDelay)
          /\ DelayBefore(k) <= backoff.retryConfig.maxDelay
    /\ \A f \in DOMAIN backoff.given :
          ~backoff.given[f][1] => backoff.retryConfig[f] = DefaultRetryConfig[f]
    /\ DefaultRetryConfig.maxRetries = 3 /\ DefaultRetryConfig.initialDelay = 1000
    /\ DefaultRetryConfig.maxDelay = 60000 /\ DefaultRetryConfig.backoffMultiplier = 2
    /\ Len(backoff.delays) = backoff.attempt + (IF backoff.st = "sleeping" THEN 1 ELSE 0)
    /\ Len(backoff.delays) <= backoff.retryConfig.maxRetries

C30_Witness ==
  /\ backoff.st = "threw"
  /\ backoff.retryConfig = DefaultRetryConfig
  /\ backoff.delays = << 1000, 2000, 4000 >>

\* the first settlement of provider i's chat is an unclassified raw error
FirstIsRaw(i) ==
  /\ Len(hist[i]) >= 1
  /\ hist[i][1].tag = "error"
  /\ ~hist[i][1].structured

\* C34: an unclassified raw error thrown by a provider's chat, the plain
\* Error of request validation included, is treated as unknown_error and
\* not retryable: AIClient.chat invokes that provider exactly once before
\* failing over or rejecting.
C34_RawErrorNotRetried ==
  entry = "chat" =>
    \A i \in Hops : FirstIsRaw(i) =>
      /\ calls[i] = 1
      /\ loop[i].st = "threw"

RECURSIVE SumCalls(_)
\* the provider invocations of hops 1..i
SumCalls(i) == IF i = 0 THEN 0 ELSE calls[i] + SumCalls(i - 1)

\* C35: in an AIClient.chat call with n providers and maxRetries = r >= 0
\* each provider's chat is invoked at most r+1 times and all providers
\* together at most n*(r+1) times, with or without a client-level timeout.
C35_InvocationBound ==
  entry = "chat" =>
    /\ \A i \in Hops : calls[i] <= maxRetries + 1
    /\ SumCalls(Len(providers)) <= Len(providers) * (maxRetries + 1)

C35_Witness ==
  /\ entry = "chat"
  /\ timeout # 0
  /\ pc = "rejected"
  /\ Len(providers) = MaxProviders
  /\ maxRetries = MaxRetriesBound
  /\ SumCalls(Len(providers)) = MaxProviders * (MaxRetriesBound + 1)

\* what C36 says of one state of a chat call with a client-level timeout
HopTimers ==
  (entry = "chat" /\ timeout # 0) =>
    /\ \A i \in Hops : (timer[i] = "unset") <=> (calls[i] = 0)
    /\ \A i \in Hops : hop[i] = TimeoutError(i) =>
          IF i < Len(providers)
          THEN cur > i
          ELSE pc = "rejected" /\ result = TimeoutError(i)
    /\ (pc = "rejected" /\ result.type = "timeout_error") =>
          /\ result = TimeoutError(Len(providers))
          /\ timer[Len(providers)] = "fired"

C37_ChatSettles ==
  (entry = "chat" /\ pc = "running") ~> (pc \in {"resolved", "rejected"})

C37_Witness ==
  /\ entry = "chat"
  /\ timeout # 0
  /\ pc = "rejected"
  /\ Len(providers) = MaxProviders
  /\ \A i \in Hops : hist[i] = <<>> /\ loop[i].st = "inflight"

\* C38: a failed SDK initialization is memoized for the adapter's lifetime:
\* after the first initialization attempt failed, every later chat /
\* chatStream call on that adapter fails with the same non-retryable
\* api_error, and no new initialization attempt is started.
C38_InitFailureMemoized ==
  sdk.promise = "rejected" =>
    /\ sdk.started = 1
    /\ sdk.client = 0
    /\ \A c \in DOMAIN acall :
          /\ acall[c].pc \in {"idle", "failed"}
          /\ (acall[c].pc = "failed" /\ ValidateRequest(req) = "ok") =>
                /\ acall[c].err = InitFailure(providers[1])
                /\ acall[c].err.type = "api_error"
                /\ ~acall[c].err.retryable

C38_Witness ==
  /\ sdk.promise = "rejected"
  /\ ValidateRequest(req) = "ok"
  /\ \A c \in DOMAIN acall : acall[c].pc = "failed"
  /\ acall[1].waited
  /\ \A c \in DOMAIN acall : c > 1 => ~acall[c].waited
  /\ acall[2].kind = "chatStream"
  /\ acall[3].kind = "chat"

\* the elements of a fallbacks array, by the position the caller gave them
Order(fallbacks) == [k \in DOMAIN fallbacks |-> fallbacks[k].pos]

\* C39: constructing an AIClient (and any chat / chatStream / setDebug call
\* after it) leaves the configuration the caller supplied unchanged, the
\* order of the elements of its fallbacks array included.
C39_ConfigUnchanged ==
  constructed => Order(cfgFallbacks) = Order(given.fallbacks)

\* provider i's adapter emitted a tool-call fragment in a stream it completed
EmittedToolCalls(i) ==
  /\ stream[i] = "done"
  /\ \E k \in DOMAIN Segment(i) : Segment(i)[k].delta = "tool_calls"

\* C40: for every adapter a stream in which tool-call fragments were
\* emitted ends with a terminal chunk whose finish_reason is tool_calls.
C40_ToolStreamFinishReason ==
  (entry = "chatStream" /\ pc = "resolved") =>
    \A i \in Hops : EmittedToolCalls(i) =>
      Segment(i)[Len(Segment(i))].finish_reason = "tool_calls"

\* C31: the model sent upstream is the request's model if non-empty,
\* otherwise the defaultModel of the provider's configuration if set (to a
\* non-empty string), otherwise the adapter's fixed hardcoded default.
C31_ModelPrecedence ==
  (opIn.op = "model" /\ opOut # None) =>
    opOut.model =
      IF opIn.request.model[1] /\ opIn.request.model[2] # ""
      THEN opIn.request.model[2]
      ELSE IF opIn.config.defaultModel[1] /\ opIn.config.defaultModel[2] # ""
           THEN opIn.config.defaultModel[2]
           ELSE CASE opIn.adapter = "openai" -> "gpt-4o-mini"
                  [] opIn.adapter = "anthropic" -> "claude-3-5-sonnet-20241022"
                  [] opIn.adapter = "gemini" -> "gemini-2.0-flash-exp"

C31_Witness ==
  /\ opIn.op = "model"
  /\ opIn.adapter = "anthropic"
  /\ opIn.request.model = <<TRUE, "">>
  /\ opIn.config.defaultModel = <<TRUE, "given">>
  /\ opOut # None
  /\ opOut.model = "given"

\* the number of warnings emitted for one legacy field
WarningsFor(field) ==
  Cardinality({ k \in DOMAIN opOut.warnings : opOut.warnings[k] = field })

\* C32: with debug enabled the deprecation warning for a legacy
\* function-calling field (functions / function_call) is emitted one time
\* only, not again on every later request or retry attempt that uses the
\* field; with debug disabled it is never emitted.
C32_WarningOnce ==
  opIn.op = "validateRequest" =>
    /\ WarningsFor("functions") <= 1
    /\ WarningsFor("function_call") <= 1
    /\ ~opIn.debug => opOut.warnings = <<>>

\* a configuration the claim says makes the construction fail
ClaimRejects(config) ==
  \/ config.provider \notin { "openai", "anthropic", "gemini" } /\ ~config.customProvider[1]
  \/ /\ \/ ~config.customProvider[1]
         \/ config.customProvider[2].base
     /\ config.apiKey \in { <<FALSE, "">>, <<TRUE, "">>, <<TRUE, " ">> }
  \/ config.customProvider[1] /\ config.customProvider[2].members # Members

\* C33: AIClient construction fails, producing no client, if the primary or
\* any fallback configuration names an unknown provider without a
\* customProvider, lacks a non-blank API key (built-in and
\* BaseProvider-derived adapters), or supplies a custom provider whose
\* instance lacks type, config, chat, chatStream or isConfigured; hence
\* every provider of a constructed client's chain has chat, chatStream and
\* isConfigured.
C33_ConstructionValidates ==
  (opIn.op = "constructor" /\ opOut # None) =>
    /\ (\E k \in DOMAIN opIn.configs : ClaimRejects(opIn.configs[k])) =>
          (~opOut.constructed /\ opOut.chain = <<>>)
    /\ opOut.constructed =>
          /\ Len(opOut.chain) = Len(opIn.configs)
          /\ \A k \in DOMAIN opOut.chain :
                { "chat", "chatStream", "isConfigured" } \subseteq opOut.chain[k].members

C33_Witness ==
  /\ opIn.op = "constructor"
  /\ opOut # None
  /\ opOut.constructed
  /\ Len(opOut.chain) = MaxProviders
  /\ opOut.chain[1].type = "custom"
  /\ opIn.configs[1].provider = "unknown"
  /\ ~opIn.configs[1].apiKey[1]
  /\ opOut.chain[MaxProviders].type = "gemini"

====
